---- MODULE Spec2Model ----
(***************************************************************************)
(* A model of gltfu, the glTF optimisation toolkit.  The document is the   *)
(* in-memory tinygltf::Model: index-coupled tables of scenes, nodes,       *)
(* meshes, materials, textures, images, samplers, accessors, buffer views, *)
(* buffers, skins, animations and cameras.  Every pass is an operator on   *)
(* the document, translated statement by statement from its C++ source,    *)
(* and an action that applies it.  Indices are 0-based as in the source;   *)
(* tables are sequences, so element i of a table t is t[i + 1].            *)
(***************************************************************************)
EXTENDS Integers, Sequences, FiniteSets, TLC

VARIABLES
    model,      \* the tinygltf::Model a pass or a command works on
    prev,       \* the document as it was before the last pass
    lastPass,   \* name of the last pass that ran ("none" at start)
    passOpts,   \* the options the last pass ran with
    steps,      \* number of passes run so far
    pc,         \* command-line driver: position in the running callback
    cmd,        \* command-line driver: the subcommand and its flags
    records,    \* command-line driver: records emitted on the progress stream
    exitCode,   \* command-line driver: exit code of the process (-1 = running)
    passLog     \* command-line driver: passes invoked, in order

passVars == <<model, prev, lastPass, passOpts, steps>>
cliVars == <<pc, cmd, records, exitCode, passLog>>
vars == <<model, prev, lastPass, passOpts, steps, pc, cmd, records, exitCode, passLog>>

\* Bound on the number of passes run in one behaviour.
MaxSteps == 3

----------------------------------------------------------------------------
(* Generic helpers for 0-based tables.                                     *)

At(table, i) == table[i + 1]

InRange(i, table) == i >= 0 /\ i < Len(table)

RefOk(i, table) == i = -1 \/ InRange(i, table)

Indices(table) == 0 .. (Len(table) - 1)

SeqRange(s) == {s[k] : k \in 1 .. Len(s)}

RECURSIVE SeqOfSet(_)
SeqOfSet(S) ==
    IF S = {} THEN <<>>
    ELSE LET lo == CHOOSE x \in S : \A y \in S : x <= y
         IN <<lo>> \o SeqOfSet(S \ {lo})

\* Attribute semantics in the order std::map<std::string, int> iterates them.
Semantics ==
    <<"COLOR_0", "COLOR_1", "JOINTS_0", "NORMAL", "POSITION", "TANGENT",
      "TEXCOORD_0", "TEXCOORD_1", "WEIGHTS_0">>

AttrKeys(attributes) ==
    SelectSeq(Semantics, LAMBDA s : s \in DOMAIN attributes)

AttrValues(attributes) ==
    LET keys == AttrKeys(attributes)
    IN [k \in 1 .. Len(keys) |-> attributes[keys[k]]]

NoAttributes == [s \in {} |-> 0]

----------------------------------------------------------------------------
(* Document constructors: the fields of the tinygltf structures that the   *)
(* passes read or write.                                                   *)

TextureInfo(index, texCoord) == [index |-> index, texCoord |-> texCoord]

NoTexture == TextureInfo(-1, 0)

Node(children, mesh, skin, camera, extras) ==
    [children |-> children, mesh |-> mesh, skin |-> skin, camera |-> camera,
     extras |-> extras, translation |-> <<>>, rotation |-> <<>>,
     scale |-> <<>>, matrix |-> <<>>]

Primitive(attributes, indices, material, mode) ==
    [attributes |-> attributes, indices |-> indices, material |-> material,
     mode |-> mode, targets |-> <<>>, draco |-> <<>>]

Mesh(primitives) == [primitives |-> primitives, name |-> "", weights |-> <<>>]

Material(baseColor, normal, unlit) ==
    [name |-> "", baseColorTexture |-> baseColor,
     metallicRoughnessTexture |-> NoTexture, normalTexture |-> normal,
     occlusionTexture |-> NoTexture, emissiveTexture |-> NoTexture,
     baseColorFactor |-> 1, metallicFactor |-> 1, roughnessFactor |-> 1,
     emissiveFactor |-> 0, alphaMode |-> "OPAQUE", alphaCutoff |-> 5,
     doubleSided |-> FALSE, unlit |-> unlit, extras |-> FALSE]

Texture(source, sampler) == [name |-> "", source |-> source, sampler |-> sampler]

Image(bufferView, bytes) ==
    [name |-> "", mimeType |-> "image/png", width |-> 1, height |-> 1,
     bufferView |-> bufferView, image |-> bytes, uri |-> ""]

Accessor(bufferView, byteOffset, componentType, type, count) ==
    [name |-> "", bufferView |-> bufferView, byteOffset |-> byteOffset,
     componentType |-> componentType, type |-> type, count |-> count,
     normalized |-> FALSE, sparse |-> FALSE, minValues |-> <<>>,
     maxValues |-> <<>>]

BufferView(buffer, byteOffset, byteLength, byteStride) ==
    [buffer |-> buffer, byteOffset |-> byteOffset, byteLength |-> byteLength,
     byteStride |-> byteStride, target |-> 0]

Buffer(data) == [data |-> data]

Skin(joints, skeleton, inverseBindMatrices) ==
    [joints |-> joints, skeleton |-> skeleton,
     inverseBindMatrices |-> inverseBindMatrices]

Channel(sampler, target_node, target_path) ==
    [sampler |-> sampler, target_node |-> target_node,
     target_path |-> target_path]

AnimSampler(input, output) == [input |-> input, output |-> output]

Animation(channels, samplers) == [channels |-> channels, samplers |-> samplers]

EmptyModel ==
    [scenes |-> <<>>, nodes |-> <<>>, meshes |-> <<>>, materials |-> <<>>,
     textures |-> <<>>, images |-> <<>>, samplers |-> <<>>,
     accessors |-> <<>>, bufferViews |-> <<>>, buffers |-> <<>>,
     skins |-> <<>>, animations |-> <<>>, cameras |-> <<>>,
     defaultScene |-> -1, extensionsUsed |-> {}, extensionsRequired |-> {}]

\* glTF component types and primitive modes used by the passes.
UNSIGNED_BYTE == 5121
UNSIGNED_SHORT == 5123
UNSIGNED_INT == 5125
FLOAT == 5126
MODE_POINTS == 0
MODE_TRIANGLES == 4

----------------------------------------------------------------------------
(* The index invariant of the document.                                    *)

PrimitiveRefsOk(m, prim) ==
    /\ RefOk(prim.material, m.materials)
    /\ RefOk(prim.indices, m.accessors)
    /\ \A s \in DOMAIN prim.attributes : RefOk(prim.attributes[s], m.accessors)
    /\ \A t \in 1 .. Len(prim.targets) :
          \A s \in DOMAIN prim.targets[t] : RefOk(prim.targets[t][s], m.accessors)
    /\ \A d \in 1 .. Len(prim.draco) : RefOk(prim.draco[d], m.bufferViews)

MaterialRefsOk(m, material) ==
    /\ RefOk(material.baseColorTexture.index, m.textures)
    /\ RefOk(material.metallicRoughnessTexture.index, m.textures)
    /\ RefOk(material.normalTexture.index, m.textures)
    /\ RefOk(material.occlusionTexture.index, m.textures)
    /\ RefOk(material.emissiveTexture.index, m.textures)

IndexValid(m) ==
    /\ \A s \in 1 .. Len(m.scenes) :
          \A k \in 1 .. Len(m.scenes[s]) : RefOk(m.scenes[s][k], m.nodes)
    /\ \A n \in 1 .. Len(m.nodes) :
          /\ \A k \in 1 .. Len(m.nodes[n].children) :
                RefOk(m.nodes[n].children[k], m.nodes)
          /\ RefOk(m.nodes[n].mesh, m.meshes)
          /\ RefOk(m.nodes[n].skin, m.skins)
          /\ RefOk(m.nodes[n].camera, m.cameras)
    /\ \A i \in 1 .. Len(m.meshes) :
          \A p \in 1 .. Len(m.meshes[i].primitives) :
             PrimitiveRefsOk(m, m.meshes[i].primitives[p])
    /\ \A i \in 1 .. Len(m.materials) : MaterialRefsOk(m, m.materials[i])
    /\ \A i \in 1 .. Len(m.textures) :
          /\ RefOk(m.textures[i].source, m.images)
          /\ RefOk(m.textures[i].sampler, m.samplers)
    /\ \A i \in 1 .. Len(m.images) : RefOk(m.images[i].bufferView, m.bufferViews)
    /\ \A i \in 1 .. Len(m.accessors) :
          RefOk(m.accessors[i].bufferView, m.bufferViews)
    /\ \A i \in 1 .. Len(m.bufferViews) : RefOk(m.bufferViews[i].buffer, m.buffers)
    /\ \A i \in 1 .. Len(m.skins) :
          /\ \A k \in 1 .. Len(m.skins[i].joints) :
                RefOk(m.skins[i].joints[k], m.nodes)
          /\ RefOk(m.skins[i].skeleton, m.nodes)
          /\ RefOk(m.skins[i].inverseBindMatrices, m.accessors)
    /\ \A i \in 1 .. Len(m.animations) :
          /\ \A c \in 1 .. Len(m.animations[i].channels) :
                /\ RefOk(m.animations[i].channels[c].target_node, m.nodes)
                /\ RefOk(m.animations[i].channels[c].sampler,
                         m.animations[i].samplers)
          /\ \A k \in 1 .. Len(m.animations[i].samplers) :
                /\ RefOk(m.animations[i].samplers[k].input, m.accessors)
                /\ RefOk(m.animations[i].samplers[k].output, m.accessors)

----------------------------------------------------------------------------
(* Prune (gltf_prune.cpp).                                                 *)

PruneOptions(keepLeaves, keepAttributes, keepExtras) ==
    [keepLeaves |-> keepLeaves, keepAttributes |-> keepAttributes,
     keepExtras |-> keepExtras]

\* The default-constructed PruneOptions.
DefaultPruneOptions == PruneOptions(FALSE, FALSE, FALSE)

AllPruneOptions ==
    {PruneOptions(l, a, e) : l \in BOOLEAN, a \in BOOLEAN, e \in BOOLEAN}

EmptyUsed ==
    [nodes |-> {}, meshes |-> {}, materials |-> {}, accessors |-> {},
     textures |-> {}, images |-> {}, samplers |-> {}, bufferViews |-> {},
     buffers |-> {}, skins |-> {}, cameras |-> {}]

markAccessor(accessorIdx, m, used) ==
    IF accessorIdx < 0 \/ accessorIdx >= Len(m.accessors) THEN used
    ELSE LET accessor == At(m.accessors, accessorIdx)
         IN IF accessor.bufferView >= 0
            THEN LET u1 == [used EXCEPT !.bufferViews = @ \cup {accessor.bufferView}]
                 IN IF /\ accessor.bufferView < Len(m.bufferViews)
                       /\ At(m.bufferViews, accessor.bufferView).buffer >= 0
                    THEN [u1 EXCEPT !.buffers =
                             @ \cup {At(m.bufferViews, accessor.bufferView).buffer}]
                    ELSE u1
            ELSE used

\* markAccessor(idx, ...) followed by usedAccessors.insert(idx).
useAccessor(accessorIdx, m, used) ==
    [markAccessor(accessorIdx, m, used) EXCEPT !.accessors = @ \cup {accessorIdx}]

RECURSIVE useAccessors(_, _, _)
useAccessors(idxs, m, used) ==
    IF idxs = <<>> THEN used
    ELSE useAccessors(Tail(idxs), m, useAccessor(Head(idxs), m, used))

markTexture(textureIdx, m, used) ==
    IF textureIdx < 0 \/ textureIdx >= Len(m.textures) THEN used
    ELSE LET texture == At(m.textures, textureIdx)
             u1 == IF texture.source >= 0
                   THEN [used EXCEPT !.images = @ \cup {texture.source}]
                   ELSE used
         IN IF texture.sampler >= 0
            THEN [u1 EXCEPT !.samplers = @ \cup {texture.sampler}]
            ELSE u1

markTextureInfo(textureIdx, m, used) ==
    IF textureIdx >= 0
    THEN [markTexture(textureIdx, m, used) EXCEPT !.textures = @ \cup {textureIdx}]
    ELSE used

markMaterial(materialIdx, m, used) ==
    IF materialIdx < 0 \/ materialIdx >= Len(m.materials) THEN used
    ELSE LET material == At(m.materials, materialIdx)
             u1 == markTextureInfo(material.baseColorTexture.index, m, used)
             u2 == markTextureInfo(material.metallicRoughnessTexture.index, m, u1)
             u3 == markTextureInfo(material.normalTexture.index, m, u2)
             u4 == markTextureInfo(material.occlusionTexture.index, m, u3)
         IN markTextureInfo(material.emissiveTexture.index, m, u4)

RECURSIVE markTargets(_, _, _)
markTargets(targets, m, used) ==
    IF targets = <<>> THEN used
    ELSE markTargets(Tail(targets), m,
                     useAccessors(AttrValues(Head(targets)), m, used))

\* The KHR_draco_mesh_compression block of markMesh.
markDraco(prim, m, used) ==
    IF prim.draco = <<>> THEN used
    ELSE LET bvIdx == prim.draco[1]
         IN IF bvIdx >= 0 /\ bvIdx < Len(m.bufferViews)
            THEN LET u1 == [used EXCEPT !.bufferViews = @ \cup {bvIdx}]
                 IN IF At(m.bufferViews, bvIdx).buffer >= 0
                    THEN [u1 EXCEPT !.buffers = @ \cup {At(m.bufferViews, bvIdx).buffer}]
                    ELSE u1
            ELSE used

markPrimitive(prim, m, used) ==
    LET u1 == IF prim.material >= 0
              THEN [markMaterial(prim.material, m, used)
                        EXCEPT !.materials = @ \cup {prim.material}]
              ELSE used
        u2 == IF prim.indices >= 0 THEN useAccessor(prim.indices, m, u1) ELSE u1
        u3 == useAccessors(AttrValues(prim.attributes), m, u2)
        u4 == markTargets(prim.targets, m, u3)
    IN markDraco(prim, m, u4)

RECURSIVE markPrimitives(_, _, _)
markPrimitives(prims, m, used) ==
    IF prims = <<>> THEN used
    ELSE markPrimitives(Tail(prims), m, markPrimitive(Head(prims), m, used))

markMesh(meshIdx, m, used) ==
    IF meshIdx < 0 \/ meshIdx >= Len(m.meshes) THEN used
    ELSE markPrimitives(At(m.meshes, meshIdx).primitives, m, used)

markSkin(skinIdx, m, used) ==
    IF skinIdx < 0 \/ skinIdx >= Len(m.skins) THEN used
    ELSE LET skin == At(m.skins, skinIdx)
             u1 == IF skin.inverseBindMatrices >= 0
                   THEN useAccessor(skin.inverseBindMatrices, m, used)
                   ELSE used
             u2 == IF skin.skeleton >= 0
                   THEN [u1 EXCEPT !.nodes = @ \cup {skin.skeleton}]
                   ELSE u1
         IN [u2 EXCEPT !.nodes = @ \cup SeqRange(skin.joints)]

RECURSIVE markNode(_, _, _)
RECURSIVE markNodes(_, _, _)
markNode(nodeIdx, m, used) ==
    IF nodeIdx < 0 \/ nodeIdx >= Len(m.nodes) THEN used
    ELSE IF nodeIdx \in used.nodes THEN used
    ELSE LET node == At(m.nodes, nodeIdx)
             u0 == [used EXCEPT !.nodes = @ \cup {nodeIdx}]
             u1 == IF node.mesh >= 0
                   THEN [markMesh(node.mesh, m, u0) EXCEPT !.meshes = @ \cup {node.mesh}]
                   ELSE u0
             u2 == IF node.skin >= 0
                   THEN [markSkin(node.skin, m, u1) EXCEPT !.skins = @ \cup {node.skin}]
                   ELSE u1
             u3 == IF node.camera >= 0
                   THEN [u2 EXCEPT !.cameras = @ \cup {node.camera}]
                   ELSE u2
         IN markNodes(node.children, m, u3)

markNodes(idxs, m, used) ==
    IF idxs = <<>> THEN used
    ELSE markNodes(Tail(idxs), m, markNode(Head(idxs), m, used))

RECURSIVE markScenes(_, _, _)
markScenes(scenes, m, used) ==
    IF scenes = <<>> THEN used
    ELSE markScenes(Tail(scenes), m, markNodes(Head(scenes), m, used))

markReachableFromScenes(m, used) == markScenes(m.scenes, m, used)

RECURSIVE markChannels(_, _)
markChannels(channels, used) ==
    IF channels = <<>> THEN used
    ELSE markChannels(Tail(channels),
            IF Head(channels).target_node >= 0
            THEN [used EXCEPT !.nodes = @ \cup {Head(channels).target_node}]
            ELSE used)

RECURSIVE markSamplers(_, _, _)
markSamplers(samplers, m, used) ==
    IF samplers = <<>> THEN used
    ELSE LET sampler == Head(samplers)
             u1 == IF sampler.input >= 0 THEN useAccessor(sampler.input, m, used)
                   ELSE used
             u2 == IF sampler.output >= 0 THEN useAccessor(sampler.output, m, u1)
                   ELSE u1
         IN markSamplers(Tail(samplers), m, u2)

RECURSIVE markAnimations(_, _, _)
markAnimations(anims, m, used) ==
    IF anims = <<>> THEN used
    ELSE markAnimations(Tail(anims), m,
            markSamplers(Head(anims).samplers, m,
                         markChannels(Head(anims).channels, used)))

markAnimationResources(m, used) == markAnimations(m.animations, m, used)

\* The two marking calls that process() repeats after each pre-pass.
markAll(m) == markAnimationResources(m, markReachableFromScenes(m, EmptyUsed))

\* A marking that takes the buffers of all accessors, used or not.
ensureAllAccessorResourcesMarked(m, used) ==
    LET marked == {a \in 0 .. (Len(m.accessors) - 1) :
                      InRange(At(m.accessors, a).bufferView, m.bufferViews)}
        views == {At(m.accessors, a).bufferView : a \in marked}
        bufs == {At(m.bufferViews, v).buffer : v \in views}
    IN [used EXCEPT !.bufferViews = @ \cup views,
                    !.buffers = @ \cup {b \in bufs : InRange(b, m.buffers)}]

ensureAccessorResourcesMarked(m, used) ==
    LET marked == {a \in used.accessors :
                      /\ InRange(a, m.accessors)
                      /\ InRange(At(m.accessors, a).bufferView, m.bufferViews)}
        views == {At(m.accessors, a).bufferView : a \in marked}
        bufs == {At(m.bufferViews, v).buffer : v \in views}
    IN [used EXCEPT !.bufferViews = @ \cup views,
                    !.buffers = @ \cup {b \in bufs : InRange(b, m.buffers)}]

\* The removal test pruneEmptyLeafNodes applies to a child or a scene root.
isEmptyLeaf(m, idx, options) ==
    LET node == At(m.nodes, idx)
        isEmpty == /\ node.mesh < 0 /\ node.skin < 0 /\ node.camera < 0
                   /\ node.children = <<>>
        hasExtras == ~options.keepExtras \/ ~node.extras
    IN isEmpty /\ hasExtras

\* One list filtered as the inner loops of pruneEmptyLeafNodes filter it.
keptLeafRefs(m, refs, options) ==
    SelectSeq(refs, LAMBDA i : InRange(i, m.nodes) /\ ~isEmptyLeaf(m, i, options))

leafRefsChanged(m, refs, options) ==
    \E k \in 1 .. Len(refs) :
        InRange(refs[k], m.nodes) /\ isEmptyLeaf(m, refs[k], options)

\* The first for loop of one iteration: nodes are rewritten in place, in
\* index order, so a later node sees the child lists already rewritten.
RECURSIVE pruneLeafChildren(_, _, _, _)
pruneLeafChildren(m, i, options, changed) ==
    IF i > Len(m.nodes) THEN [model |-> m, changed |-> changed]
    ELSE LET refs == m.nodes[i].children
             m1 == [m EXCEPT !.nodes[i].children = keptLeafRefs(m, refs, options)]
         IN pruneLeafChildren(m1, i + 1, options,
                              changed \/ leafRefsChanged(m, refs, options))

\* The second for loop of one iteration: the scene roots.
RECURSIVE pruneLeafRoots(_, _, _, _)
pruneLeafRoots(m, s, options, changed) ==
    IF s > Len(m.scenes) THEN [model |-> m, changed |-> changed]
    ELSE LET refs == m.scenes[s]
             m1 == [m EXCEPT !.scenes[s] = keptLeafRefs(m, refs, options)]
         IN pruneLeafRoots(m1, s + 1, options,
                           changed \/ leafRefsChanged(m, refs, options))

RECURSIVE pruneEmptyLeafNodes(_, _)
pruneEmptyLeafNodes(m, options) ==
    LET r1 == pruneLeafChildren(m, 1, options, FALSE)
        r2 == pruneLeafRoots(r1.model, 1, options, r1.changed)
    IN IF r2.changed THEN pruneEmptyLeafNodes(r2.model, options) ELSE r2.model

\* std::stoi(semantic.substr(9)) for the TEXCOORD_n semantics of the model.
texCoordIndex(semantic) == IF semantic = "TEXCOORD_0" THEN 0 ELSE 1

\* material is <<>> for the null pointer, <<mat>> otherwise.
isSemanticRequired(semantic, material) ==
    IF semantic = "POSITION" THEN TRUE
    ELSE IF semantic = "NORMAL"
         THEN (IF material = <<>> THEN TRUE ELSE ~material[1].unlit)
    ELSE IF semantic = "TANGENT"
         THEN (IF material = <<>> THEN FALSE ELSE material[1].normalTexture.index >= 0)
    ELSE IF semantic \in {"TEXCOORD_0", "TEXCOORD_1"}
         THEN (IF material = <<>> THEN FALSE
               ELSE LET t == texCoordIndex(semantic)
                        mat == material[1]
                    IN \/ mat.baseColorTexture.texCoord = t
                       \/ mat.metallicRoughnessTexture.texCoord = t
                       \/ mat.normalTexture.texCoord = t
                       \/ mat.occlusionTexture.texCoord = t
                       \/ mat.emissiveTexture.texCoord = t)
    ELSE IF semantic = "COLOR_0" THEN TRUE
    ELSE IF semantic = "COLOR_1" THEN FALSE
    ELSE TRUE

pruneUnusedAttributes(m) ==
    [m EXCEPT !.meshes =
        [i \in 1 .. Len(m.meshes) |->
            [m.meshes[i] EXCEPT !.primitives =
                [p \in 1 .. Len(m.meshes[i].primitives) |->
                    LET prim == m.meshes[i].primitives[p]
                        material == IF InRange(prim.material, m.materials)
                                    THEN <<At(m.materials, prim.material)>>
                                    ELSE <<>>
                        toRemove == {s \in DOMAIN prim.attributes :
                                        ~isSemanticRequired(s, material)}
                    IN [prim EXCEPT !.attributes =
                           [s \in (DOMAIN prim.attributes) \ toRemove |->
                               prim.attributes[s]]]]]]]

buildIndexMap(originalSize, usedIndices) ==
    [i \in 0 .. (originalSize - 1) |->
        IF i \in usedIndices
        THEN Cardinality({j \in 0 .. (i - 1) : j \in usedIndices})
        ELSE -1]

removeUnused(items, usedIndices) ==
    LET kept == SeqOfSet({i \in Indices(items) : i \in usedIndices})
    IN [k \in 1 .. Len(kept) |-> At(items, kept[k])]

\* "if (x >= 0 && map[x] != -1) x = map[x]; else if (x >= 0) x = -1;"
remapRef(x, map) ==
    IF x >= 0 /\ map[x] # -1 THEN map[x] ELSE IF x >= 0 THEN -1 ELSE x

\* The lists (scene roots, children, joints) keep only the surviving entries.
remapList(refs, map) ==
    LET kept == SelectSeq(refs, LAMBDA i : map[i] # -1)
    IN [k \in 1 .. Len(kept) |-> map[kept[k]]]

\* Attribute maps are rewritten without the "x >= 0" test.
remapAttributes(attributes, map) ==
    [s \in DOMAIN attributes |->
        IF map[attributes[s]] # -1 THEN map[attributes[s]] ELSE -1]

remapTextureInfo(info, map) == [info EXCEPT !.index = remapRef(@, map)]

\* The Draco bufferView is rewritten only when its view survives.
remapDraco(draco, bufferViewMap) ==
    IF draco = <<>> THEN draco
    ELSE LET oldBvIdx == draco[1]
         IN IF oldBvIdx >= 0 /\ oldBvIdx < Cardinality(DOMAIN bufferViewMap)
               /\ bufferViewMap[oldBvIdx] # -1
            THEN <<bufferViewMap[oldBvIdx]>>
            ELSE draco

\* The indices process() reads through an index map without a range test.
\* Outside this set the behaviour of process() is undefined.
PruneDefined(m) ==
    /\ \A s \in 1 .. Len(m.scenes) :
          \A k \in 1 .. Len(m.scenes[s]) : InRange(m.scenes[s][k], m.nodes)
    /\ \A n \in 1 .. Len(m.nodes) :
          /\ \A k \in 1 .. Len(m.nodes[n].children) :
                InRange(m.nodes[n].children[k], m.nodes)
          /\ m.nodes[n].mesh < Len(m.meshes)
          /\ m.nodes[n].skin < Len(m.skins)
          /\ m.nodes[n].camera < Len(m.cameras)
    /\ \A i \in 1 .. Len(m.meshes) :
          \A p \in 1 .. Len(m.meshes[i].primitives) :
             LET prim == m.meshes[i].primitives[p]
             IN /\ prim.material < Len(m.materials)
                /\ prim.indices < Len(m.accessors)
                /\ \A s \in DOMAIN prim.attributes :
                      InRange(prim.attributes[s], m.accessors)
                /\ \A t \in 1 .. Len(prim.targets) :
                      \A s \in DOMAIN prim.targets[t] :
                         InRange(prim.targets[t][s], m.accessors)
    /\ \A i \in 1 .. Len(m.materials) :
          /\ m.materials[i].baseColorTexture.index < Len(m.textures)
          /\ m.materials[i].metallicRoughnessTexture.index < Len(m.textures)
          /\ m.materials[i].normalTexture.index < Len(m.textures)
          /\ m.materials[i].occlusionTexture.index < Len(m.textures)
          /\ m.materials[i].emissiveTexture.index < Len(m.textures)
    /\ \A i \in 1 .. Len(m.textures) :
          /\ m.textures[i].source < Len(m.images)
          /\ m.textures[i].sampler < Len(m.samplers)
    /\ \A i \in 1 .. Len(m.accessors) : m.accessors[i].bufferView < Len(m.bufferViews)
    /\ \A i \in 1 .. Len(m.bufferViews) : m.bufferViews[i].buffer < Len(m.buffers)
    /\ \A i \in 1 .. Len(m.skins) :
          /\ \A k \in 1 .. Len(m.skins[i].joints) :
                InRange(m.skins[i].joints[k], m.nodes)
          /\ m.skins[i].skeleton < Len(m.nodes)
          /\ m.skins[i].inverseBindMatrices < Len(m.accessors)
    /\ \A i \in 1 .. Len(m.animations) :
          /\ \A c \in 1 .. Len(m.animations[i].channels) :
                m.animations[i].channels[c].target_node < Len(m.nodes)
          /\ \A k \in 1 .. Len(m.animations[i].samplers) :
                /\ m.animations[i].samplers[k].input < Len(m.accessors)
                /\ m.animations[i].samplers[k].output < Len(m.accessors)

\* The index updates and table compaction of process(), given the used sets.
pruneRemap(m, used) ==
    LET nodeMap == buildIndexMap(Len(m.nodes), used.nodes)
        meshMap == buildIndexMap(Len(m.meshes), used.meshes)
        materialMap == buildIndexMap(Len(m.materials), used.materials)
        accessorMap == buildIndexMap(Len(m.accessors), used.accessors)
        textureMap == buildIndexMap(Len(m.textures), used.textures)
        imageMap == buildIndexMap(Len(m.images), used.images)
        samplerMap == buildIndexMap(Len(m.samplers), used.samplers)
        bufferViewMap == buildIndexMap(Len(m.bufferViews), used.bufferViews)
        bufferMap == buildIndexMap(Len(m.buffers), used.buffers)
        skinMap == buildIndexMap(Len(m.skins), used.skins)
        cameraMap == buildIndexMap(Len(m.cameras), used.cameras)
        scenes == [s \in 1 .. Len(m.scenes) |-> remapList(m.scenes[s], nodeMap)]
        nodes == [n \in 1 .. Len(m.nodes) |->
                    [m.nodes[n] EXCEPT !.children = remapList(@, nodeMap),
                                       !.mesh = remapRef(@, meshMap),
                                       !.skin = remapRef(@, skinMap),
                                       !.camera = remapRef(@, cameraMap)]]
        meshes == [i \in 1 .. Len(m.meshes) |->
                     [m.meshes[i] EXCEPT !.primitives =
                        [p \in 1 .. Len(m.meshes[i].primitives) |->
                            [m.meshes[i].primitives[p] EXCEPT
                                !.material = remapRef(@, materialMap),
                                !.indices = remapRef(@, accessorMap),
                                !.attributes = remapAttributes(@, accessorMap),
                                !.targets = [t \in 1 .. Len(@) |->
                                                remapAttributes(@[t], accessorMap)],
                                !.draco = remapDraco(@, bufferViewMap)]]]]
        materials == [i \in 1 .. Len(m.materials) |->
                        [m.materials[i] EXCEPT
                            !.baseColorTexture = remapTextureInfo(@, textureMap),
                            !.metallicRoughnessTexture = remapTextureInfo(@, textureMap),
                            !.normalTexture = remapTextureInfo(@, textureMap),
                            !.occlusionTexture = remapTextureInfo(@, textureMap),
                            !.emissiveTexture = remapTextureInfo(@, textureMap)]]
        textures == [i \in 1 .. Len(m.textures) |->
                       [m.textures[i] EXCEPT !.source = remapRef(@, imageMap),
                                             !.sampler = remapRef(@, samplerMap)]]
        accessors == [i \in 1 .. Len(m.accessors) |->
                        [m.accessors[i] EXCEPT !.bufferView = remapRef(@, bufferViewMap)]]
        bufferViews == [i \in 1 .. Len(m.bufferViews) |->
                          [m.bufferViews[i] EXCEPT !.buffer = remapRef(@, bufferMap)]]
        skins == [i \in 1 .. Len(m.skins) |->
                    [m.skins[i] EXCEPT
                        !.inverseBindMatrices = remapRef(@, accessorMap),
                        !.skeleton = remapRef(@, nodeMap),
                        !.joints = remapList(@, nodeMap)]]
        animations == [i \in 1 .. Len(m.animations) |->
                         [m.animations[i] EXCEPT
                             !.channels = [c \in 1 .. Len(@) |->
                                 [@[c] EXCEPT !.target_node = remapRef(@, nodeMap)]],
                             !.samplers = [k \in 1 .. Len(@) |->
                                 [@[k] EXCEPT !.input = remapRef(@, accessorMap),
                                              !.output = remapRef(@, accessorMap)]]]]
    IN [m EXCEPT
           !.scenes = scenes,
           !.nodes = removeUnused(nodes, used.nodes),
           !.meshes = removeUnused(meshes, used.meshes),
           !.materials = removeUnused(materials, used.materials),
           !.accessors = removeUnused(accessors, used.accessors),
           !.textures = removeUnused(textures, used.textures),
           !.images = removeUnused(m.images, used.images),
           !.samplers = removeUnused(m.samplers, used.samplers),
           !.bufferViews = removeUnused(bufferViews, used.bufferViews),
           !.buffers = removeUnused(m.buffers, used.buffers),
           !.skins = removeUnused(skins, used.skins),
           !.cameras = removeUnused(m.cameras, used.cameras),
           !.animations = animations]

\* GltfPrune::process.  Marking depends on the document only, so the used
\* sets in force at the remapping are those of the last marking, made on the
\* document as the enabled pre-passes left it.
prunePrePasses(m, options) ==
    LET m1 == IF ~options.keepLeaves THEN pruneEmptyLeafNodes(m, options) ELSE m
    IN IF ~options.keepAttributes THEN pruneUnusedAttributes(m1) ELSE m1

pruneMarked(m2) == pruneRemap(m2, ensureAccessorResourcesMarked(m2, markAll(m2)))

PruneProcess(m, options) == pruneMarked(prunePrePasses(m, options))

----------------------------------------------------------------------------
(* The command-line driver is idle while the passes are studied alone.     *)

CliIdle ==
    /\ pc = "idle"
    /\ cmd = [name |-> "none"]
    /\ records = <<>>
    /\ exitCode = -1
    /\ passLog = <<>>

PassInit(docs) ==
    /\ model \in docs
    /\ prev = model
    /\ lastPass = "none"
    /\ passOpts = [none |-> TRUE]
    /\ steps = 0
    /\ CliIdle

\* A pass ran: the bookkeeping every pass action shares.
PassRan(name, options, result) ==
    /\ steps < MaxSteps
    /\ model' = result
    /\ prev' = model
    /\ lastPass' = name
    /\ passOpts' = options
    /\ steps' = steps + 1
    /\ UNCHANGED cliVars

----------------------------------------------------------------------------
(* Documents for prune: a scene over three nodes, a skin, two meshes, a    *)
(* textured material, an image stored in a buffer view, an animation.      *)

PruneDoc(roots, c0, skin0, mesh1, c1, x2, joints, imgView, anim) ==
    [EmptyModel EXCEPT
        !.scenes = <<roots>>,
        !.nodes = <<Node(c0, 0, skin0, -1, FALSE),
                    Node(c1, mesh1, -1, -1, FALSE),
                    Node(<<>>, -1, -1, -1, x2)>>,
        !.meshes = <<Mesh(<<Primitive([POSITION |-> 0, TANGENT |-> 1, TEXCOORD_0 |-> 2],
                                      -1, 0, MODE_TRIANGLES)>>),
                     Mesh(<<Primitive([POSITION |-> 1, COLOR_1 |-> 3],
                                      -1, -1, MODE_TRIANGLES)>>)>>,
        !.materials = <<Material(TextureInfo(0, 0), NoTexture, FALSE)>>,
        !.textures = <<Texture(0, 0)>>,
        !.images = <<Image(imgView, <<1, 2>>)>>,
        !.samplers = <<[wrapS |-> 0]>>,
        !.accessors = <<Accessor(0, 0, FLOAT, "VEC3", 1),
                        Accessor(1, 0, FLOAT, "VEC3", 1),
                        Accessor(2, 0, FLOAT, "VEC2", 1),
                        Accessor(3, 0, FLOAT, "VEC4", 1)>>,
        !.bufferViews = <<BufferView(0, 0, 12, 0), BufferView(0, 12, 12, 0),
                          BufferView(0, 24, 8, 0), BufferView(0, 32, 16, 0),
                          BufferView(1, 0, 2, 0)>>,
        !.buffers = <<Buffer(<<>>), Buffer(<<1, 2>>)>>,
        !.skins = <<Skin(joints, -1, -1)>>,
        !.animations = IF anim
                       THEN <<Animation(<<Channel(0, 2, "translation")>>,
                                        <<AnimSampler(3, 3)>>)>>
                       ELSE <<>>]

PruneDocs ==
    {PruneDoc(roots, c0, skin0, mesh1, c1, x2, joints, imgView, anim) :
        roots \in {<<0>>, <<0, 1>>, <<1, 0>>},
        c0 \in {<<>>, <<1>>, <<2>>},
        skin0 \in {-1, 0},
        mesh1 \in {-1, 1},
        c1 \in {<<>>, <<2>>},
        x2 \in BOOLEAN,
        joints \in {<<1>>, <<1, 2>>},
        imgView \in {-1, 4},
        anim \in BOOLEAN}

\* Documents without nodes and with one buffer: an accessor (bound to the
\* buffer's view or to none), read by an unreachable mesh, by an animation
\* sampler, or by nothing, and an image that may be stored in the view.
PruneBufferDoc(accessorView, meshUses, animUses, imageView, scenes) ==
    [EmptyModel EXCEPT
        !.scenes = scenes,
        !.meshes = IF meshUses
                   THEN <<Mesh(<<Primitive([POSITION |-> 0], -1, -1, MODE_TRIANGLES)>>)>>
                   ELSE <<>>,
        !.images = IF imageView >= 0 THEN <<Image(imageView, <<>>)>> ELSE <<>>,
        !.accessors = <<Accessor(accessorView, 0, UNSIGNED_BYTE, "VEC3", 1)>>,
        !.bufferViews = <<BufferView(0, 0, 3, 0)>>,
        !.buffers = <<Buffer(<<1, 2, 3>>)>>,
        !.animations = IF animUses
                       THEN <<Animation(<<Channel(0, -1, "translation")>>,
                                        <<AnimSampler(0, 0)>>)>>
                       ELSE <<>>]

PruneBufferDocs ==
    {PruneBufferDoc(accessorView, meshUses, animUses, imageView, scenes) :
        accessorView \in {-1, 0},
        meshUses \in BOOLEAN,
        animUses \in BOOLEAN,
        imageView \in {-1, 0},
        scenes \in {<<>>, <<<<>>>>}}
     \cup {[EmptyModel EXCEPT !.bufferViews = views, !.buffers = <<Buffer(<<1, 2, 3>>)>>] :
              views \in {<<>>, <<BufferView(0, 0, 3, 0)>>}}

InitPrune == PassInit(PruneDocs \cup PruneBufferDocs)

\* GltfPrune::process(model, options) runs once.
Prune ==
    /\ PruneDefined(model)
    /\ \E options \in AllPruneOptions :
          PassRan("prune", options, PruneProcess(model, options))

NextPrune == Prune

SpecPrune == InitPrune /\ [][NextPrune]_vars

----------------------------------------------------------------------------
(* Accessor layout (tinygltf helpers used by dedupe, weld and bounds).     *)

\* tinygltf::GetComponentSizeInBytes
GetComponentSizeInBytes(componentType) ==
    IF componentType \in {5120, 5121} THEN 1
    ELSE IF componentType \in {5122, 5123} THEN 2
    ELSE IF componentType \in {5124, 5125, 5126} THEN 4
    ELSE IF componentType = 5130 THEN 8
    ELSE -1

\* tinygltf::GetNumComponentsInType
GetNumComponentsInType(type) ==
    IF type = "SCALAR" THEN 1
    ELSE IF type = "VEC2" THEN 2
    ELSE IF type = "VEC3" THEN 3
    ELSE IF type = "VEC4" THEN 4
    ELSE IF type = "MAT2" THEN 4
    ELSE IF type = "MAT3" THEN 9
    ELSE IF type = "MAT4" THEN 16
    ELSE -1

\* Bytes [offset, offset + size) of a buffer.
Bytes(data, offset, size) == SubSeq(data, offset + 1, offset + size)

----------------------------------------------------------------------------
(* Dedupe (gltf_dedup.cpp).                                                *)

DedupOptions(accessors, meshes, materials, textures, keepUniqueNames) ==
    [dedupAccessors |-> accessors, dedupMeshes |-> meshes,
     dedupMaterials |-> materials, dedupTextures |-> textures,
     keepUniqueNames |-> keepUniqueNames]

\* GltfDedup::Options(): everything on, names not kept.
DefaultDedupOptions == DedupOptions(TRUE, TRUE, TRUE, TRUE, FALSE)

\* XXH64 over a byte range, taken to be free of collisions on the byte
\* strings of the model; NoHash is the value-initialised 0 that
\* contentHashes[idx] yields for an accessor that was never hashed.
XXH64(bytes) == [hashed |-> TRUE, bytes |-> bytes]

NoHash == [hashed |-> FALSE, bytes |-> <<>>]

createAccessorHash(accessor) ==
    <<accessor.count, accessor.type, accessor.componentType,
      accessor.normalized, accessor.sparse>>

RECURSIVE hashElements(_, _, _, _, _, _)
hashElements(data, offset, stride, elemSize, k, count) ==
    IF k >= count THEN <<>>
    ELSE (IF offset + k * stride + elemSize <= Len(data)
          THEN Bytes(data, offset + k * stride, elemSize)
          ELSE <<>>)
         \o hashElements(data, offset, stride, elemSize, k + 1, count)

\* The content hash dedupAccessors stores for accessor i, if any.
contentHash(m, i) ==
    LET accessor == At(m.accessors, i)
    IN IF ~InRange(accessor.bufferView, m.bufferViews) THEN NoHash
       ELSE LET bufferView == At(m.bufferViews, accessor.bufferView)
            IN IF ~InRange(bufferView.buffer, m.buffers) THEN NoHash
               ELSE LET data == At(m.buffers, bufferView.buffer).data
                        offset == bufferView.byteOffset + accessor.byteOffset
                        elemSize == GetComponentSizeInBytes(accessor.componentType)
                                    * GetNumComponentsInType(accessor.type)
                        stride == IF bufferView.byteStride > 0
                                  THEN bufferView.byteStride
                                  ELSE elemSize
                    IN IF bufferView.byteStride = 0 \/ bufferView.byteStride = stride
                       THEN LET size == accessor.count * stride
                            IN IF offset + size <= Len(data)
                               THEN XXH64(Bytes(data, offset, size))
                               ELSE NoHash
                       ELSE XXH64(hashElements(data, offset, stride, elemSize,
                                               0, accessor.count))

\* The scan all four sub-passes share: items are visited in index order,
\* the first item with a key is kept in the "unique" map, every later item
\* with that key becomes a duplicate of it.  The result maps each duplicate
\* index to its original.
RECURSIVE scanDuplicates(_, _, _, _)
scanDuplicates(keys, i, unique, duplicates) ==
    IF i >= Len(keys) THEN duplicates
    ELSE LET key == At(keys, i)
             seen == {j \in DOMAIN unique : unique[j] = key}
         IN IF seen # {}
            THEN scanDuplicates(keys, i + 1, unique,
                    [d \in (DOMAIN duplicates) \cup {i} |->
                        IF d = i THEN CHOOSE j \in seen : TRUE ELSE duplicates[d]])
            ELSE scanDuplicates(keys, i + 1,
                    [j \in (DOMAIN unique) \cup {i} |->
                        IF j = i THEN key ELSE unique[j]],
                    duplicates)

findDuplicates(keys) ==
    scanDuplicates(keys, 0, [j \in {} |-> 0], [d \in {} |-> 0])

\* indexRemap: -1 for a duplicate, else the number of survivors before it.
dedupIndexRemap(size, duplicates) ==
    [i \in 0 .. (size - 1) |->
        IF i \in DOMAIN duplicates THEN -1
        ELSE Cardinality({j \in 0 .. (i - 1) : j \notin DOMAIN duplicates})]

dedupRemove(items, duplicates) ==
    LET kept == SeqOfSet({i \in Indices(items) : i \notin DOMAIN duplicates})
    IN [k \in 1 .. Len(kept) |-> At(items, kept[k])]

\* A reference after both update rounds: first redirected to the original,
\* then renumbered ("updateIndex").
dedupRef(idx, duplicates, indexRemap) ==
    LET first == IF idx \in DOMAIN duplicates THEN duplicates[idx] ELSE idx
    IN IF first < 0 THEN first
       ELSE IF first \in DOMAIN duplicates THEN indexRemap[duplicates[first]]
       ELSE indexRemap[first]

dedupAttributes(attributes, duplicates, indexRemap) ==
    [s \in DOMAIN attributes |-> dedupRef(attributes[s], duplicates, indexRemap)]

accessorDuplicates(m) ==
    findDuplicates([k \in 1 .. Len(m.accessors) |->
        <<createAccessorHash(m.accessors[k]), contentHash(m, k - 1)>>])

\* The reference updates and the removal of dedupAccessors, given the map
\* of duplicates it found.
applyAccessorDuplicates(m, duplicates) ==
    LET indexRemap == dedupIndexRemap(Len(m.accessors), duplicates)
    IN IF DOMAIN duplicates = {} THEN m
       ELSE [m EXCEPT
          !.meshes = [i \in 1 .. Len(m.meshes) |->
             [m.meshes[i] EXCEPT !.primitives =
                [p \in 1 .. Len(m.meshes[i].primitives) |->
                   [m.meshes[i].primitives[p] EXCEPT
                      !.attributes = dedupAttributes(@, duplicates, indexRemap),
                      !.indices = dedupRef(@, duplicates, indexRemap),
                      !.targets = [t \in 1 .. Len(@) |->
                          dedupAttributes(@[t], duplicates, indexRemap)]]]]],
          !.animations = [i \in 1 .. Len(m.animations) |->
             [m.animations[i] EXCEPT !.samplers = [k \in 1 .. Len(@) |->
                [@[k] EXCEPT !.input = dedupRef(@, duplicates, indexRemap),
                             !.output = dedupRef(@, duplicates, indexRemap)]]]],
          !.skins = [i \in 1 .. Len(m.skins) |->
             [m.skins[i] EXCEPT
                !.inverseBindMatrices = dedupRef(@, duplicates, indexRemap)]],
          !.accessors = dedupRemove(m.accessors, duplicates)]

dedupAccessors(m) == applyAccessorDuplicates(m, accessorDuplicates(m))

\* The comparison of two images, as the key it compares.
imageKey(image, options) ==
    <<image.mimeType, IF options.keepUniqueNames THEN image.name ELSE "",
      image.width, image.height, image.image>>

textureKey(texture, options) ==
    <<IF options.keepUniqueNames THEN texture.name ELSE "",
      texture.source, texture.sampler>>

dedupTextureInfo(info, duplicates, indexRemap) ==
    [info EXCEPT !.index = dedupRef(@, duplicates, indexRemap)]

dedupTextures(m, options) ==
    LET imageDuplicates ==
            findDuplicates([k \in 1 .. Len(m.images) |-> imageKey(m.images[k], options)])
        imageIndexRemap == dedupIndexRemap(Len(m.images), imageDuplicates)
        textures1 == [k \in 1 .. Len(m.textures) |->
                        [m.textures[k] EXCEPT
                            !.source = dedupRef(@, imageDuplicates, imageIndexRemap)]]
        textureDuplicates ==
            findDuplicates([k \in 1 .. Len(textures1) |-> textureKey(textures1[k], options)])
        textureIndexRemap == dedupIndexRemap(Len(textures1), textureDuplicates)
    IN [m EXCEPT
          !.images = dedupRemove(m.images, imageDuplicates),
          !.textures = dedupRemove(textures1, textureDuplicates),
          !.materials = [i \in 1 .. Len(m.materials) |->
             [m.materials[i] EXCEPT
                !.baseColorTexture =
                    dedupTextureInfo(@, textureDuplicates, textureIndexRemap),
                !.metallicRoughnessTexture =
                    dedupTextureInfo(@, textureDuplicates, textureIndexRemap),
                !.normalTexture =
                    dedupTextureInfo(@, textureDuplicates, textureIndexRemap),
                !.occlusionTexture =
                    dedupTextureInfo(@, textureDuplicates, textureIndexRemap),
                !.emissiveTexture =
                    dedupTextureInfo(@, textureDuplicates, textureIndexRemap)]]]

createMaterialHash(material) ==
    <<material.baseColorFactor, material.baseColorTexture.index,
      material.metallicFactor, material.roughnessFactor,
      material.metallicRoughnessTexture.index, material.normalTexture.index,
      material.occlusionTexture.index, material.emissiveTexture.index,
      material.emissiveFactor, material.alphaMode, material.alphaCutoff,
      material.doubleSided>>

materialKey(material, options) ==
    IF options.keepUniqueNames /\ material.name # ""
    THEN <<material.name, createMaterialHash(material)>>
    ELSE <<"", createMaterialHash(material)>>

dedupMaterials(m, options) ==
    LET duplicates ==
            findDuplicates([k \in 1 .. Len(m.materials) |->
                               materialKey(m.materials[k], options)])
        indexRemap == dedupIndexRemap(Len(m.materials), duplicates)
    IN IF DOMAIN duplicates = {} THEN m
       ELSE [m EXCEPT
          !.meshes = [i \in 1 .. Len(m.meshes) |->
             [m.meshes[i] EXCEPT !.primitives =
                [p \in 1 .. Len(m.meshes[i].primitives) |->
                   [m.meshes[i].primitives[p] EXCEPT
                      !.material = dedupRef(@, duplicates, indexRemap)]]]],
          !.materials = dedupRemove(m.materials, duplicates)]

primitiveKey(prim) ==
    <<prim.mode, prim.material, prim.indices, prim.attributes, prim.targets>>

meshKey(mesh, options) ==
    <<IF options.keepUniqueNames /\ mesh.name # "" THEN mesh.name ELSE "",
      [p \in 1 .. Len(mesh.primitives) |-> primitiveKey(mesh.primitives[p])]>>

dedupMeshes(m, options) ==
    LET duplicates ==
            findDuplicates([k \in 1 .. Len(m.meshes) |-> meshKey(m.meshes[k], options)])
        indexRemap == dedupIndexRemap(Len(m.meshes), duplicates)
    IN IF DOMAIN duplicates = {} THEN m
       ELSE [m EXCEPT
          !.nodes = [n \in 1 .. Len(m.nodes) |->
             [m.nodes[n] EXCEPT !.mesh = dedupRef(@, duplicates, indexRemap)]],
          !.meshes = dedupRemove(m.meshes, duplicates)]

\* GltfDedup::process with the sub-passes in a mistaken order (meshes before
\* the tables their keys refer to).
DedupProcessMeshesFirst(m, options) ==
    LET m1 == IF options.dedupMeshes THEN dedupMeshes(m, options) ELSE m
        m2 == IF options.dedupMaterials THEN dedupMaterials(m1, options) ELSE m1
        m3 == IF options.dedupTextures THEN dedupTextures(m2, options) ELSE m2
    IN IF options.dedupAccessors THEN dedupAccessors(m3) ELSE m3

\* GltfDedup::process: accessors, textures (images first), materials, meshes.
DedupProcess(m, options) ==
    LET m1 == IF options.dedupAccessors THEN dedupAccessors(m) ELSE m
        m2 == IF options.dedupTextures THEN dedupTextures(m1, options) ELSE m1
        m3 == IF options.dedupMaterials THEN dedupMaterials(m2, options) ELSE m2
    IN IF options.dedupMeshes THEN dedupMeshes(m3, options) ELSE m3

\* The references the sub-passes read through indexRemap without a range
\* test; outside this set the behaviour of process() is undefined.
DedupDefined(m) ==
    /\ \A i \in 1 .. Len(m.meshes) :
          \A p \in 1 .. Len(m.meshes[i].primitives) :
             LET prim == m.meshes[i].primitives[p]
             IN /\ prim.material < Len(m.materials)
                /\ prim.indices < Len(m.accessors)
                /\ \A s \in DOMAIN prim.attributes :
                      prim.attributes[s] < Len(m.accessors)
                /\ \A t \in 1 .. Len(prim.targets) :
                      \A s \in DOMAIN prim.targets[t] :
                         prim.targets[t][s] < Len(m.accessors)
    /\ \A n \in 1 .. Len(m.nodes) : m.nodes[n].mesh < Len(m.meshes)
    /\ \A i \in 1 .. Len(m.materials) :
          /\ m.materials[i].baseColorTexture.index < Len(m.textures)
          /\ m.materials[i].metallicRoughnessTexture.index < Len(m.textures)
          /\ m.materials[i].normalTexture.index < Len(m.textures)
          /\ m.materials[i].occlusionTexture.index < Len(m.textures)
          /\ m.materials[i].emissiveTexture.index < Len(m.textures)
    /\ \A i \in 1 .. Len(m.textures) : m.textures[i].source < Len(m.images)
    /\ \A i \in 1 .. Len(m.skins) : m.skins[i].inverseBindMatrices < Len(m.accessors)
    /\ \A i \in 1 .. Len(m.animations) :
          \A k \in 1 .. Len(m.animations[i].samplers) :
             /\ m.animations[i].samplers[k].input < Len(m.accessors)
             /\ m.animations[i].samplers[k].output < Len(m.accessors)

----------------------------------------------------------------------------
(* Documents for dedupe.                                                   *)

\* Eight-byte buffers holding two 4-byte records: a 2-byte element followed
\* by 2 bytes that belong to another attribute (interleaved layout).
DedupBufferData ==
    {<<1, 2, 0, 0, 3, 4, 0, 0>>, <<1, 2, 9, 9, 3, 4, 9, 9>>, <<5, 6, 0, 0, 7, 8, 0, 0>>}

\* Three accessors of two UNSIGNED_BYTE VEC2 elements over two views, each
\* view over its own buffer; two meshes, an animation sampler and a skin
\* refer to them.
AccessorDoc(data0, data1, stride0, stride1, view1, off1, view2, off2) ==
    [EmptyModel EXCEPT
        !.scenes = <<<<0, 1>>>>,
        !.nodes = <<Node(<<>>, 0, -1, -1, FALSE), Node(<<>>, 1, 0, -1, FALSE)>>,
        !.meshes = <<Mesh(<<Primitive([POSITION |-> 0], -1, -1, MODE_TRIANGLES)>>),
                     Mesh(<<Primitive([POSITION |-> 1], -1, -1, MODE_TRIANGLES)>>)>>,
        !.accessors = <<Accessor(0, 0, UNSIGNED_BYTE, "VEC2", 2),
                        Accessor(view1, off1, UNSIGNED_BYTE, "VEC2", 2),
                        Accessor(view2, off2, UNSIGNED_BYTE, "VEC2", 2)>>,
        !.bufferViews = <<BufferView(0, 0, 8, stride0), BufferView(1, 0, 8, stride1)>>,
        !.buffers = <<Buffer(data0), Buffer(data1)>>,
        !.skins = <<Skin(<<0>>, -1, 2)>>,
        !.animations = <<Animation(<<Channel(0, 0, "translation")>>,
                                   <<AnimSampler(1, 2)>>)>>]

AccessorDocs ==
    {AccessorDoc(data0, data1, stride0, stride1, view1, off1, view2, off2) :
        data0 \in DedupBufferData, data1 \in DedupBufferData,
        stride0 \in {0, 4}, stride1 \in {0, 4},
        view1 \in {-1, 0, 1}, off1 \in {0, 2},
        view2 \in {-1, 0, 1}, off2 \in {0, 2}}

\* The two-mesh scenario: two meshes whose POSITION accessors are distinct
\* accessors over the same bytes.
TwoMeshDoc ==
    [EmptyModel EXCEPT
        !.scenes = <<<<0, 1>>>>,
        !.nodes = <<Node(<<>>, 0, -1, -1, FALSE), Node(<<>>, 1, -1, -1, FALSE)>>,
        !.meshes = <<Mesh(<<Primitive([POSITION |-> 0], -1, -1, MODE_TRIANGLES)>>),
                     Mesh(<<Primitive([POSITION |-> 1], -1, -1, MODE_TRIANGLES)>>)>>,
        !.accessors = <<Accessor(0, 0, UNSIGNED_BYTE, "VEC2", 2),
                        Accessor(0, 0, UNSIGNED_BYTE, "VEC2", 2)>>,
        !.bufferViews = <<BufferView(0, 0, 4, 0)>>,
        !.buffers = <<Buffer(<<1, 2, 3, 4>>)>>]

\* Two images, three textures, three materials, three meshes and three
\* nodes; duplicates cascade from the images down to the meshes.
MaterialDoc(img1, imgName1, src1, src2, tex1, tex2, matName2, mat1, mat2, meshName2) ==
    [EmptyModel EXCEPT
        !.scenes = <<<<0, 1, 2>>>>,
        !.nodes = <<Node(<<>>, 0, -1, -1, FALSE), Node(<<>>, 1, -1, -1, FALSE),
                    Node(<<>>, 2, -1, -1, FALSE)>>,
        !.meshes = <<Mesh(<<Primitive([POSITION |-> 0], -1, 0, MODE_TRIANGLES)>>),
                     Mesh(<<Primitive([POSITION |-> 0], -1, mat1, MODE_TRIANGLES)>>),
                     [Mesh(<<Primitive([POSITION |-> 0], -1, mat2, MODE_TRIANGLES)>>)
                         EXCEPT !.name = meshName2]>>,
        !.materials = <<Material(TextureInfo(0, 0), NoTexture, FALSE),
                        Material(TextureInfo(tex1, 0), NoTexture, FALSE),
                        [Material(TextureInfo(tex2, 0), NoTexture, FALSE)
                            EXCEPT !.name = matName2]>>,
        !.textures = <<Texture(0, -1), Texture(src1, -1), Texture(src2, -1)>>,
        !.images = <<Image(-1, <<7>>), [Image(-1, img1) EXCEPT !.name = imgName1]>>,
        !.accessors = <<Accessor(0, 0, UNSIGNED_BYTE, "VEC2", 2)>>,
        !.bufferViews = <<BufferView(0, 0, 4, 0)>>,
        !.buffers = <<Buffer(<<1, 2, 3, 4>>)>>]

MaterialDocs ==
    {MaterialDoc(img1, imgName1, src1, src2, tex1, tex2, matName2, mat1, mat2, meshName2) :
        img1 \in {<<7>>, <<8>>}, imgName1 \in {"", "a"},
        src1 \in {0, 1}, src2 \in {-1, 1},
        tex1 \in {1, 2}, tex2 \in {-1, 2}, matName2 \in {"", "a"},
        mat1 \in {0, 1}, mat2 \in {1, 2}, meshName2 \in {"", "a"}}

\* Two materials over one texture, the second a copy of the first changed
\* in one field (or in none), each used by its own mesh.
KeyedMaterialDoc(second) ==
    [EmptyModel EXCEPT
        !.scenes = <<<<0, 1>>>>,
        !.nodes = <<Node(<<>>, 0, -1, -1, FALSE), Node(<<>>, 1, -1, -1, FALSE)>>,
        !.meshes = <<Mesh(<<Primitive([POSITION |-> 0, TEXCOORD_0 |-> 0,
                                       TEXCOORD_1 |-> 0], -1, 0, MODE_TRIANGLES)>>),
                     Mesh(<<Primitive([POSITION |-> 0, TEXCOORD_0 |-> 0,
                                       TEXCOORD_1 |-> 0], -1, 1, MODE_TRIANGLES)>>)>>,
        !.materials = <<Material(TextureInfo(0, 0), NoTexture, FALSE), second>>,
        !.textures = <<Texture(0, -1)>>,
        !.images = <<Image(-1, <<7>>)>>,
        !.accessors = <<Accessor(0, 0, UNSIGNED_BYTE, "VEC2", 2)>>,
        !.bufferViews = <<BufferView(0, 0, 4, 0)>>,
        !.buffers = <<Buffer(<<1, 2, 3, 4>>)>>]

KeyedMaterialDocs ==
    {KeyedMaterialDoc(second) :
        second \in {Material(TextureInfo(0, 0), NoTexture, FALSE),
                    Material(TextureInfo(0, 1), NoTexture, FALSE),
                    Material(TextureInfo(0, 0), NoTexture, TRUE),
                    [Material(TextureInfo(0, 0), NoTexture, FALSE)
                        EXCEPT !.extras = TRUE],
                    [Material(TextureInfo(0, 0), NoTexture, FALSE)
                        EXCEPT !.doubleSided = TRUE],
                    [Material(TextureInfo(0, 0), NoTexture, FALSE)
                        EXCEPT !.name = "a"]}}

DedupDocs == AccessorDocs \cup MaterialDocs \cup KeyedMaterialDocs \cup {TwoMeshDoc}

\* The option records the dedupe command can be given.
AccessorsOnly == DedupOptions(TRUE, FALSE, FALSE, FALSE, FALSE)

DedupOptionSet ==
    {DefaultDedupOptions,
     DedupOptions(TRUE, TRUE, TRUE, TRUE, TRUE),
     AccessorsOnly,
     DedupOptions(FALSE, TRUE, TRUE, TRUE, FALSE),
     DedupOptions(FALSE, TRUE, FALSE, FALSE, TRUE)}

InitDedup == PassInit(DedupDocs)

\* GltfDedup::process(model, options) runs once.
Dedupe ==
    /\ DedupDefined(model)
    /\ \E options \in DedupOptionSet :
          PassRan("dedupe", options, DedupProcess(model, options))

NextDedup == Dedupe

SpecDedup == InitDedup /\ [][NextDedup]_vars

----------------------------------------------------------------------------
(* Bounds (gltf_bounds.cpp).  Doubles are fixed-point integers in units of *)
(* 2^-23, which represents zero and every float32 of magnitude in [1, 128) *)
(* exactly.                                                                *)

\* std::numeric_limits<double>::max() and ::lowest().
DBL_MAX == 2147483647
DBL_LOWEST == -2147483647

RECURSIVE Pow2(_)
Pow2(n) == IF n <= 0 THEN 1 ELSE 2 * Pow2(n - 1)

\* static_cast<double>(*reinterpret_cast<const float*>(p)) for the
\* little-endian bytes b at p: sign, 8-bit exponent, 23-bit mantissa, in
\* units of 2^-23 (a magnitude below one unit is 0).
decodeFloat(b) ==
    LET sign == b[4] \div 128
        exponent == (b[4] % 128) * 2 + b[3] \div 128
        mantissa == (b[3] % 128) * 65536 + b[2] * 256 + b[1]
        magnitude == IF exponent = 0 /\ mantissa = 0 THEN 0
                     ELSE IF exponent < 103 THEN 0
                     ELSE IF exponent >= 127
                          THEN (8388608 + mantissa) * Pow2(exponent - 127)
                          ELSE (8388608 + mantissa) \div Pow2(127 - exponent)
    IN IF sign = 1 THEN 0 - magnitude ELSE magnitude

\* tinygltf::Accessor::ByteStride
ByteStride(accessor, bufferView) ==
    IF bufferView.byteStride = 0
    THEN (IF GetComponentSizeInBytes(accessor.componentType) <= 0
             \/ GetNumComponentsInType(accessor.type) <= 0
          THEN -1
          ELSE GetComponentSizeInBytes(accessor.componentType)
               * GetNumComponentsInType(accessor.type))
    ELSE (IF GetComponentSizeInBytes(accessor.componentType) <= 0 THEN -1
          ELSE IF bufferView.byteStride
                  % GetComponentSizeInBytes(accessor.componentType) # 0 THEN -1
          ELSE bufferView.byteStride)

stdMin(a, b) == IF b < a THEN b ELSE a

stdMax(a, b) == IF a < b THEN b ELSE a

\* The element loop of computeAccessorBounds from element i on.
RECURSIVE boundsLoop(_, _, _, _, _, _, _)
boundsLoop(data, base, stride, i, count, minValues, maxValues) ==
    IF i >= count THEN [minValues |-> minValues, maxValues |-> maxValues]
    ELSE LET vertex == [c \in 1 .. 3 |->
                           decodeFloat(Bytes(data, base + i * stride + 4 * (c - 1), 4))]
         IN boundsLoop(data, base, stride, i + 1, count,
                       [c \in 1 .. 3 |-> stdMin(minValues[c], vertex[c])],
                       [c \in 1 .. 3 |-> stdMax(maxValues[c], vertex[c])])

\* The accessors computeAccessorBounds reads: in range, VEC3, FLOAT, with a
\* buffer view and a buffer in range.
boundsApplies(m, accessorIdx) ==
    /\ InRange(accessorIdx, m.accessors)
    /\ At(m.accessors, accessorIdx).type = "VEC3"
    /\ At(m.accessors, accessorIdx).componentType = FLOAT
    /\ InRange(At(m.accessors, accessorIdx).bufferView, m.bufferViews)
    /\ InRange(At(m.bufferViews, At(m.accessors, accessorIdx).bufferView).buffer,
               m.buffers)

boundsStride(accessor, bufferView) ==
    IF ByteStride(accessor, bufferView) = 0 THEN 12
    ELSE ByteStride(accessor, bufferView)

computeAccessorBounds(m, accessorIdx) ==
    IF ~boundsApplies(m, accessorIdx) THEN [model |-> m, updated |-> FALSE]
    ELSE LET accessor == At(m.accessors, accessorIdx)
             bufferView == At(m.bufferViews, accessor.bufferView)
             data == At(m.buffers, bufferView.buffer).data
             r == boundsLoop(data, bufferView.byteOffset + accessor.byteOffset,
                             boundsStride(accessor, bufferView), 0, accessor.count,
                             <<DBL_MAX, DBL_MAX, DBL_MAX>>,
                             <<DBL_LOWEST, DBL_LOWEST, DBL_LOWEST>>)
         IN [model |-> [m EXCEPT !.accessors[accessorIdx + 1].minValues = r.minValues,
                                 !.accessors[accessorIdx + 1].maxValues = r.maxValues],
             updated |-> TRUE]

\* The POSITION accessor indices in the order computeAllBounds visits them.
RECURSIVE positionRefs(_, _, _)
positionRefs(m, i, p) ==
    IF i > Len(m.meshes) THEN <<>>
    ELSE IF p > Len(m.meshes[i].primitives) THEN positionRefs(m, i + 1, 1)
    ELSE (IF "POSITION" \in DOMAIN m.meshes[i].primitives[p].attributes
          THEN <<m.meshes[i].primitives[p].attributes["POSITION"]>>
          ELSE <<>>) \o positionRefs(m, i, p + 1)

RECURSIVE boundsFold(_, _, _)
boundsFold(m, refs, updated) ==
    IF refs = <<>> THEN [model |-> m, updated |-> updated]
    ELSE LET r == computeAccessorBounds(m, Head(refs))
         IN boundsFold(r.model, Tail(refs),
                       IF r.updated THEN updated + 1 ELSE updated)

computeAllBounds(m) == boundsFold(m, positionRefs(m, 1, 1), 0)

\* The element reads stay inside the buffer; outside this set the loop reads
\* out of bounds and the behaviour is undefined.
BoundsDefined(m) ==
    \A k \in 1 .. Len(positionRefs(m, 1, 1)) :
        LET idx == positionRefs(m, 1, 1)[k]
        IN boundsApplies(m, idx) =>
              LET accessor == At(m.accessors, idx)
                  bufferView == At(m.bufferViews, accessor.bufferView)
                  stride == boundsStride(accessor, bufferView)
              IN /\ stride > 0
                 /\ accessor.count > 0 =>
                       bufferView.byteOffset + accessor.byteOffset
                          + (accessor.count - 1) * stride + 12
                       <= Len(At(m.buffers, bufferView.buffer).data)

----------------------------------------------------------------------------
(* Documents for bounds: one mesh whose POSITION accessor reads up to two  *)
(* float32 triples, tightly packed or 16 bytes apart.                      *)

\* Little-endian float32 encodings of the coordinates used.
F32(x) ==
    IF x = -1 THEN <<0, 0, 128, 191>>
    ELSE IF x = 2 THEN <<0, 0, 0, 64>>
    ELSE IF x = 5 THEN <<0, 0, 160, 64>>
    ELSE <<0, 0, 0, 0>>

BoundsCoords == {-1, 0, 2}

BoundsDoc(x1, y1, x2, z2, count, view, stride, type, stale) ==
    [EmptyModel EXCEPT
        !.scenes = <<<<0>>>>,
        !.nodes = <<Node(<<>>, 0, -1, -1, FALSE)>>,
        !.meshes = <<Mesh(<<Primitive([POSITION |-> 0], -1, -1, MODE_TRIANGLES)>>)>>,
        !.accessors = <<[Accessor(view, 0, FLOAT, type, count) EXCEPT
                            !.minValues = stale, !.maxValues = stale]>>,
        !.bufferViews = <<BufferView(0, 0, 32, stride)>>,
        !.buffers = <<Buffer(F32(x1) \o F32(y1) \o F32(5) \o
                             (IF stride = 16 THEN F32(0) ELSE <<>>) \o
                             F32(x2) \o F32(5) \o F32(z2) \o
                             (IF stride = 16 THEN F32(0) ELSE <<>>))>>]

BoundsDocs ==
    {BoundsDoc(x1, y1, x2, z2, count, view, stride, type, stale) :
        x1 \in BoundsCoords, y1 \in BoundsCoords,
        x2 \in BoundsCoords, z2 \in BoundsCoords,
        count \in {0, 1, 2}, view \in {-1, 0}, stride \in {0, 16},
        type \in {"VEC3", "VEC2"}, stale \in {<<>>, <<0, 0, 0>>}}

InitBounds == PassInit(BoundsDocs)

\* GltfBounds::computeAllBounds(model) runs once; the options record keeps
\* the number of accessors it reports as updated.
Bounds ==
    /\ BoundsDefined(model)
    /\ PassRan("bounds", [updated |-> computeAllBounds(model).updated],
               computeAllBounds(model).model)

NextBounds == Bounds

SpecBounds == InitBounds /\ [][NextBounds]_vars

----------------------------------------------------------------------------
(* Weld (gltf_weld.cpp).  A uint32_t is four little-endian bytes, so that  *)
(* the hash arithmetic keeps its 32-bit wrap-around.                       *)

\* 0xFFFFFFFF: the table and write-map entry that holds no vertex.
EMPTY_U32 == -1

\* glTF bufferView targets.
TARGET_ARRAY_BUFFER == 34962
TARGET_ELEMENT_ARRAY_BUFFER == 34963

WeldOptions(overwrite) == [overwrite |-> overwrite]

getElementSize(type) ==
    IF type = "SCALAR" THEN 1
    ELSE IF type = "VEC2" THEN 2
    ELSE IF type = "VEC3" THEN 3
    ELSE IF type = "VEC4" THEN 4
    ELSE IF type = "MAT2" THEN 4
    ELSE IF type = "MAT3" THEN 9
    ELSE IF type = "MAT4" THEN 16
    ELSE 1

getComponentSize(componentType) ==
    IF componentType \in {5120, 5121} THEN 1
    ELSE IF componentType \in {5122, 5123} THEN 2
    ELSE IF componentType \in {5124, 5125, 5126} THEN 4
    ELSE 4

\* The componentSize switch of the VertexStream constructor (no default case:
\* componentSize stays 1).
streamComponentSize(componentType) ==
    IF componentType \in {5120, 5121} THEN 1
    ELSE IF componentType \in {5122, 5123} THEN 2
    ELSE IF componentType \in {5124, 5125, 5126} THEN 4
    ELSE 1

\* getAccessorData: the buffer and the offset of the accessor's first byte.
getAccessorData(accessorIdx, m) ==
    LET accessor == At(m.accessors, accessorIdx)
        bufferView == At(m.bufferViews, accessor.bufferView)
    IN [data |-> At(m.buffers, bufferView.buffer).data,
        base |-> bufferView.byteOffset + accessor.byteOffset]

RECURSIVE xorBits(_, _, _)
xorBits(a, b, n) ==
    IF n = 0 THEN 0
    ELSE (((a % 2) + (b % 2)) % 2) + 2 * xorBits(a \div 2, b \div 2, n - 1)

xor32(a, b) == [i \in 1 .. 4 |-> xorBits(a[i], b[i], 8)]

\* (a * b) & 0xFFFFFFFF
mul32(a, b) ==
    LET c1 == a[1] * b[1]
        c2 == a[1] * b[2] + a[2] * b[1] + (c1 \div 256)
        c3 == a[1] * b[3] + a[2] * b[2] + a[3] * b[1] + (c2 \div 256)
        c4 == a[1] * b[4] + a[2] * b[3] + a[3] * b[2] + a[4] * b[1] + (c3 \div 256)
    IN <<c1 % 256, c2 % 256, c3 % 256, c4 % 256>>

\* m = 0x5bd1e995 and the shift by r = 24.
MurmurM == <<149, 233, 209, 91>>

shr24(k) == <<k[4], 0, 0, 0>>

\* One round of the hash: k *= m; k ^= k >> r; k *= m; h *= m; h ^= k.
hashRound(h, k) ==
    LET k1 == mul32(k, MurmurM)
        k2 == xor32(k1, shr24(k1))
        k3 == mul32(k2, MurmurM)
    IN xor32(mul32(h, MurmurM), k3)

RECURSIVE murmurHash2(_, _)
murmurHash2(h, key) ==
    IF key = <<>> THEN h ELSE murmurHash2(hashRound(h, Head(key)), Tail(key))

RECURSIVE ceilPowerOfTwoFrom(_, _)
ceilPowerOfTwoFrom(n, p) == IF p >= n THEN p ELSE ceilPowerOfTwoFrom(n, 2 * p)

ceilPowerOfTwo(n) == IF n <= 1 THEN 1 ELSE ceilPowerOfTwoFrom(n, 1)

\* VertexStream::VertexStream: one view per attribute whose accessor index
\* is in range; the stride is always elementSize * componentSize.
VertexStream(prim, m) ==
    LET refs == SelectSeq(AttrValues(prim.attributes),
                          LAMBDA a : InRange(a, m.accessors))
    IN [k \in 1 .. Len(refs) |->
           LET accessor == At(m.accessors, refs[k])
               view == getAccessorData(refs[k], m)
           IN [data |-> view.data, base |-> view.base,
               byteStride |-> getElementSize(accessor.type)
                              * streamComponentSize(accessor.componentType)]]

\* The words VertexStream::hash mixes for one attribute of one vertex: the
\* full 32-bit words, then the remaining bytes zero-padded into a last word.
attributeWords(attr, index) ==
    LET src == attr.base + index * attr.byteStride
        numFullWords == attr.byteStride \div 4
        remainingBytes == attr.byteStride % 4
        full == [i \in 1 .. numFullWords |-> Bytes(attr.data, src + 4 * (i - 1), 4)]
        rest == Bytes(attr.data, src + 4 * numFullWords, remainingBytes)
    IN IF remainingBytes > 0
       THEN Append(full, [i \in 1 .. 4 |-> IF i <= remainingBytes THEN rest[i] ELSE 0])
       ELSE full

RECURSIVE streamHashFrom(_, _, _, _)
streamHashFrom(stream, a, index, h) ==
    IF a > Len(stream) THEN h
    ELSE streamHashFrom(stream, a + 1, index,
                        murmurHash2(h, attributeWords(stream[a], index)))

\* VertexStream::hash
streamHash(stream, index) == streamHashFrom(stream, 1, index, <<0, 0, 0, 0>>)

\* VertexStream::equal
streamEqual(stream, a, b) ==
    \/ a = b
    \/ \A k \in 1 .. Len(stream) :
          Bytes(stream[k].data, stream[k].base + a * stream[k].byteStride,
                stream[k].byteStride)
          = Bytes(stream[k].data, stream[k].base + b * stream[k].byteStride,
                  stream[k].byteStride)

RECURSIVE hashProbe(_, _, _, _, _, _)
hashProbe(table, hashmod, stream, key, bucket, probe) ==
    IF probe > hashmod THEN 0
    ELSE IF table[bucket] = EMPTY_U32 \/ streamEqual(stream, table[bucket], key)
         THEN bucket
    ELSE hashProbe(table, hashmod, stream, key,
                   (bucket + probe + 1) % (hashmod + 1), probe + 1)

\* hashLookup; buckets is a power of two, so "& hashmod" is "% buckets" on
\* the low bytes of the hash.
hashLookup(table, buckets, stream, key) ==
    LET hashval == streamHash(stream, key)
        low == hashval[1] + 256 * hashval[2] + 65536 * hashval[3]
    IN hashProbe(table, buckets - 1, stream, key, low % buckets, 0)

\* The index array of a primitive as weldPrimitive and compactPrimitive
\* decode it (identity when the primitive has no indices).
readIndexArray(m, indicesIdx, count) ==
    IF indicesIdx < 0 THEN [i \in 1 .. count |-> i - 1]
    ELSE LET accessor == At(m.accessors, indicesIdx)
             src == getAccessorData(indicesIdx, m)
         IN IF accessor.componentType = UNSIGNED_SHORT
            THEN [i \in 1 .. count |->
                     src.data[src.base + 2 * i - 1] + 256 * src.data[src.base + 2 * i]]
            ELSE IF accessor.componentType = UNSIGNED_INT
            THEN [i \in 1 .. count |->
                     src.data[src.base + 4 * i - 3] + 256 * src.data[src.base + 4 * i - 2]
                     + 65536 * src.data[src.base + 4 * i - 1]
                     + 16777216 * src.data[src.base + 4 * i]]
            ELSE IF accessor.componentType = UNSIGNED_BYTE
            THEN [i \in 1 .. count |-> src.data[src.base + i]]
            ELSE [i \in 1 .. count |-> 0]

\* uniqueVertices: the source indices in order of first use.
RECURSIVE uniqueVertices(_, _)
uniqueVertices(srcIndicesArray, seen) ==
    IF srcIndicesArray = <<>> THEN <<>>
    ELSE IF Head(srcIndicesArray) \in seen
         THEN uniqueVertices(Tail(srcIndicesArray), seen)
    ELSE <<Head(srcIndicesArray)>>
         \o uniqueVertices(Tail(srcIndicesArray), seen \cup {Head(srcIndicesArray)})

\* The welding loop over the unique vertices.
RECURSIVE weldLoop(_, _, _, _, _, _)
weldLoop(unique, table, tableSize, stream, writeMap, dstVertexCount) ==
    IF unique = <<>> THEN [writeMap |-> writeMap, dstVertexCount |-> dstVertexCount]
    ELSE LET srcIndex == Head(unique)
             hashIndex == hashLookup(table, tableSize, stream, srcIndex)
             dstIndex == table[hashIndex]
         IN IF dstIndex = EMPTY_U32
            THEN weldLoop(Tail(unique), [table EXCEPT ![hashIndex] = srcIndex],
                          tableSize, stream,
                          [writeMap EXCEPT ![srcIndex] = dstVertexCount],
                          dstVertexCount + 1)
            ELSE weldLoop(Tail(unique), table, tableSize, stream,
                          [writeMap EXCEPT ![srcIndex] = writeMap[dstIndex]],
                          dstVertexCount)

\* The component type compactPrimitive gives the new index accessor.
weldIndexType(dstVertexCount) ==
    IF dstVertexCount <= 255 THEN UNSIGNED_BYTE
    ELSE IF dstVertexCount <= 65535 THEN UNSIGNED_SHORT
    ELSE UNSIGNED_INT

\* One index written with the width of the component type (the static_cast
\* keeps the low bytes).
indexBytes(value, componentType) ==
    IF componentType = UNSIGNED_SHORT
    THEN <<value % 256, (value \div 256) % 256>>
    ELSE IF componentType = UNSIGNED_INT
    THEN <<value % 256, (value \div 256) % 256, (value \div 65536) % 256,
           (value \div 16777216) % 256>>
    ELSE <<value % 256>>

RECURSIVE concatBytes(_)
concatBytes(chunks) ==
    IF chunks = <<>> THEN <<>> ELSE Head(chunks) \o concatBytes(Tail(chunks))

\* The buffer of one compacted attribute: slot d holds the vertexStride bytes
\* copied from the first source index of the stream that maps to d (the
\* "written" flags make every later copy a no-op); a slot never written
\* keeps the zeros of resize().
compactAttribute(src, vertexStride, srcIndicesArray, remap, dstVertexCount) ==
    concatBytes([d \in 1 .. dstVertexCount |->
        LET hits == {i \in 1 .. Len(srcIndicesArray) :
                        remap[srcIndicesArray[i]] = d - 1}
        IN IF hits = {} THEN [b \in 1 .. vertexStride |-> 0]
           ELSE LET first == CHOOSE i \in hits : \A j \in hits : i <= j
                IN Bytes(src.data, src.base + srcIndicesArray[first] * vertexStride,
                         vertexStride)])

\* The attribute loop of compactPrimitive from key k on: every attribute
\* gets a new buffer, buffer view and accessor appended to the document.
RECURSIVE compactAttributes(_, _, _, _, _, _, _, _)
compactAttributes(m, i, p, keys, k, srcIndicesArray, remap, dstVertexCount) ==
    IF k > Len(keys) THEN m
    ELSE LET srcAccessorIdx == m.meshes[i].primitives[p].attributes[keys[k]]
             srcAccessor == At(m.accessors, srcAccessorIdx)
             vertexStride == getElementSize(srcAccessor.type)
                             * getComponentSize(srcAccessor.componentType)
             data == compactAttribute(getAccessorData(srcAccessorIdx, m), vertexStride,
                                      srcIndicesArray, remap, dstVertexCount)
             attrBV == [BufferView(Len(m.buffers), 0, Len(data), 0)
                           EXCEPT !.target = TARGET_ARRAY_BUFFER]
             attrAccessor == [Accessor(Len(m.bufferViews), 0, srcAccessor.componentType,
                                       srcAccessor.type, dstVertexCount)
                                 EXCEPT !.normalized = srcAccessor.normalized,
                                        !.minValues = srcAccessor.minValues,
                                        !.maxValues = srcAccessor.maxValues]
             m1 == [m EXCEPT
                      !.buffers = Append(@, Buffer(data)),
                      !.bufferViews = Append(@, attrBV),
                      !.accessors = Append(@, attrAccessor),
                      !.meshes[i].primitives[p].attributes[keys[k]] = Len(m.accessors)]
         IN compactAttributes(m1, i, p, keys, k + 1, srcIndicesArray, remap,
                              dstVertexCount)

compactPrimitive(m, i, p, remap, dstVertexCount) ==
    LET primitive == m.meshes[i].primitives[p]
        posAccessorIdx == IF "POSITION" \in DOMAIN primitive.attributes
                          THEN primitive.attributes["POSITION"] ELSE -1
    IN IF primitive.indices < 0 /\ posAccessorIdx < 0
       THEN [ok |-> FALSE, model |-> m]
       ELSE LET srcIndicesCount ==
                    IF primitive.indices >= 0
                    THEN At(m.accessors, primitive.indices).count
                    ELSE At(m.accessors, posAccessorIdx).count
                dstComponentType == weldIndexType(dstVertexCount)
                srcIndicesArray == readIndexArray(m, primitive.indices, srcIndicesCount)
                indices == concatBytes([n \in 1 .. srcIndicesCount |->
                               indexBytes(remap[srcIndicesArray[n]], dstComponentType)])
                indicesBV == [BufferView(Len(m.buffers), 0, Len(indices), 0)
                                 EXCEPT !.target = TARGET_ELEMENT_ARRAY_BUFFER]
                indicesAccessor == Accessor(Len(m.bufferViews), 0, dstComponentType,
                                            "SCALAR", srcIndicesCount)
                m1 == [m EXCEPT
                         !.buffers = Append(@, Buffer(indices)),
                         !.bufferViews = Append(@, indicesBV),
                         !.accessors = Append(@, indicesAccessor),
                         !.meshes[i].primitives[p].indices = Len(m.accessors)]
            IN [ok |-> TRUE,
                model |-> compactAttributes(m1, i, p, AttrKeys(primitive.attributes),
                                            1, srcIndicesArray, remap, dstVertexCount)]

\* The primitives weldPrimitive leaves alone.
weldSkips(primitive, options) ==
    \/ primitive.indices >= 0 /\ ~options.overwrite
    \/ primitive.mode = MODE_POINTS

weldPrimitive(m, i, p, options) ==
    LET primitive == m.meshes[i].primitives[p]
        posAccessorIdx == IF "POSITION" \in DOMAIN primitive.attributes
                          THEN primitive.attributes["POSITION"] ELSE -1
    IN IF weldSkips(primitive, options) THEN [ok |-> TRUE, model |-> m]
       ELSE IF posAccessorIdx < 0 THEN [ok |-> FALSE, model |-> m]
       ELSE LET srcVertexCount == At(m.accessors, posAccessorIdx).count
                srcIndicesCount == IF primitive.indices >= 0
                                   THEN At(m.accessors, primitive.indices).count
                                   ELSE srcVertexCount
                stream == VertexStream(primitive, m)
                tableSize == ceilPowerOfTwo(srcVertexCount + (srcVertexCount \div 4))
                srcIndicesArray == readIndexArray(m, primitive.indices, srcIndicesCount)
                r == weldLoop(uniqueVertices(srcIndicesArray, {}),
                              [b \in 0 .. (tableSize - 1) |-> EMPTY_U32], tableSize,
                              stream,
                              [v \in 0 .. (srcVertexCount - 1) |-> EMPTY_U32], 0)
            IN compactPrimitive(m, i, p, r.writeMap, r.dstVertexCount)

\* GltfWeld::process: every primitive of every mesh, in order.
RECURSIVE weldFrom(_, _, _, _)
weldFrom(m, i, p, options) ==
    IF i > Len(m.meshes) THEN m
    ELSE IF p > Len(m.meshes[i].primitives) THEN weldFrom(m, i + 1, 1, options)
    ELSE weldFrom(weldPrimitive(m, i, p, options).model, i, p + 1, options)

WeldProcess(m, options) == weldFrom(m, 1, 1, options)

\* The primitives process() actually welds.
weldApplies(primitive, options) ==
    /\ ~weldSkips(primitive, options)
    /\ "POSITION" \in DOMAIN primitive.attributes
    /\ primitive.attributes["POSITION"] >= 0

\* An accessor whose buffer view and buffer exist.
weldResolves(m, accessorIdx) ==
    /\ InRange(accessorIdx, m.accessors)
    /\ InRange(At(m.accessors, accessorIdx).bufferView, m.bufferViews)
    /\ InRange(At(m.bufferViews, At(m.accessors, accessorIdx).bufferView).buffer,
               m.buffers)

\* The documents on which weld reads only memory it owns: every accessor it
\* dereferences resolves, the index stream lies in its buffer and names
\* vertices below the POSITION count, and every vertex it reads (with the
\* tight stride it assumes) lies in its buffer.
WeldDefined(m, options) ==
    \A i \in 1 .. Len(m.meshes) : \A p \in 1 .. Len(m.meshes[i].primitives) :
        LET primitive == m.meshes[i].primitives[p]
        IN weldApplies(primitive, options) =>
              /\ \A s \in DOMAIN primitive.attributes :
                    weldResolves(m, primitive.attributes[s])
              /\ primitive.indices >= 0 =>
                    /\ weldResolves(m, primitive.indices)
                    /\ getAccessorData(primitive.indices, m).base
                       + At(m.accessors, primitive.indices).count
                         * getComponentSize(At(m.accessors, primitive.indices).componentType)
                       <= Len(getAccessorData(primitive.indices, m).data)
              /\ LET srcVertexCount ==
                         At(m.accessors, primitive.attributes["POSITION"]).count
                     srcIndicesCount ==
                         IF primitive.indices >= 0
                         THEN At(m.accessors, primitive.indices).count
                         ELSE srcVertexCount
                     srcIndicesArray ==
                         readIndexArray(m, primitive.indices, srcIndicesCount)
                 IN \A n \in 1 .. srcIndicesCount :
                       /\ srcIndicesArray[n] < srcVertexCount
                       /\ \A s \in DOMAIN primitive.attributes :
                             LET accessor == At(m.accessors, primitive.attributes[s])
                                 src == getAccessorData(primitive.attributes[s], m)
                             IN src.base
                                + (srcIndicesArray[n] + 1)
                                  * getElementSize(accessor.type)
                                  * getComponentSize(accessor.componentType)
                                <= Len(src.data)

----------------------------------------------------------------------------
(* Weld: the documents it starts from and its action.                      *)

\* Three vertices: a float32 vec3 POSITION (x, 0, 5) and, optionally, a
\* normalized unsigned-byte vec2 TEXCOORD_0 (u, 9).  "tight" keeps each
\* attribute in a view of its own; "interleaved" keeps both in one view of
\* byteStride 16 (12 position bytes, 2 texcoord bytes, 2 bytes of padding).
WeldVertexCount == 3

WeldCoords == {0, 2}

weldVertex(x, u, layout) ==
    IF layout = "interleaved"
    THEN F32(x) \o F32(0) \o F32(5) \o <<u, 9, 0, 0>>
    ELSE F32(x) \o F32(0) \o F32(5)

WeldIndexArrays == {<<>>, <<0, 1, 2>>, <<2, 1, 0>>, <<0, 0, 1>>, <<1, 2, 2>>}

WeldDoc(xs, us, layout, texcoord, indexArray, indexType, mode) ==
    LET vertices == concatBytes([v \in 1 .. WeldVertexCount |->
                                    weldVertex(xs[v], us[v], layout)])
        texcoords == concatBytes([v \in 1 .. WeldVertexCount |-> <<us[v], 9>>])
        attributeData == IF layout = "interleaved" THEN vertices
                         ELSE vertices \o texcoords
        indexData == concatBytes([n \in 1 .. Len(indexArray) |->
                                     indexBytes(indexArray[n], indexType)])
        position == Accessor(0, 0, FLOAT, "VEC3", WeldVertexCount)
        uv == [Accessor(IF layout = "interleaved" THEN 0 ELSE 1,
                        IF layout = "interleaved" THEN 12 ELSE 0,
                        UNSIGNED_BYTE, "VEC2", WeldVertexCount)
                  EXCEPT !.normalized = TRUE]
        indices == Accessor(2, 0, indexType, "SCALAR", Len(indexArray))
        attributes == IF texcoord THEN [POSITION |-> 0, TEXCOORD_0 |-> 1]
                      ELSE [POSITION |-> 0]
    IN [EmptyModel EXCEPT
           !.scenes = <<<<0>>>>,
           !.nodes = <<Node(<<>>, 0, -1, -1, FALSE)>>,
           !.meshes = <<Mesh(<<Primitive(attributes,
                                         IF indexArray = <<>> THEN -1 ELSE 2,
                                         -1, mode)>>)>>,
           !.accessors = <<position, uv, indices>>,
           !.bufferViews =
               <<IF layout = "interleaved"
                 THEN BufferView(0, 0, 16 * WeldVertexCount, 16)
                 ELSE BufferView(0, 0, 12 * WeldVertexCount, 0),
                 BufferView(0, 12 * WeldVertexCount, 2 * WeldVertexCount, 0),
                 BufferView(1, 0, Len(indexData), 0)>>,
           !.buffers = <<Buffer(attributeData), Buffer(indexData)>>]

WeldDocs ==
    {WeldDoc(xs, us, layout, texcoord, indexArray, indexType, mode) :
        xs \in [1 .. WeldVertexCount -> WeldCoords],
        us \in {[v \in 1 .. WeldVertexCount |-> 1],
                [v \in 1 .. WeldVertexCount |-> IF v = WeldVertexCount THEN 3 ELSE 1]},
        layout \in {"tight", "interleaved"},
        texcoord \in BOOLEAN,
        indexArray \in WeldIndexArrays,
        indexType \in {UNSIGNED_BYTE, UNSIGNED_SHORT},
        mode \in {MODE_TRIANGLES, MODE_POINTS}}

\* A tightly packed indexed triangle with one morph target: a POSITION
\* displacement (d, 0, 0) per vertex, in a buffer and view of its own.
MorphWeldDoc(xs, deltas) ==
    [WeldDoc(xs, [v \in 1 .. WeldVertexCount |-> 1], "tight", FALSE, <<0, 1, 2>>,
             UNSIGNED_BYTE, MODE_TRIANGLES)
        EXCEPT !.meshes[1].primitives[1].targets = <<[POSITION |-> 3]>>,
               !.accessors = Append(@, Accessor(3, 0, FLOAT, "VEC3", WeldVertexCount)),
               !.bufferViews = Append(@, BufferView(2, 0, 12 * WeldVertexCount, 0)),
               !.buffers = Append(@, Buffer(concatBytes(
                               [v \in 1 .. WeldVertexCount |->
                                   F32(deltas[v]) \o F32(0) \o F32(0)])))]

MorphWeldDocs ==
    {MorphWeldDoc(xs, deltas) :
        xs \in {<<0, 0, 2>>, <<0, 2, 0>>, <<0, 2, 2>>, <<2, 0, 2>>},
        deltas \in {<<0, 0, 0>>, <<0, 2, 0>>, <<2, 0, 0>>}}

InitWeld == PassInit(WeldDocs \cup MorphWeldDocs)

\* GltfWeld::process(model, options)
Weld ==
    \E overwrite \in BOOLEAN :
        /\ WeldDefined(model, WeldOptions(overwrite))
        /\ PassRan("weld", WeldOptions(overwrite),
                   WeldProcess(model, WeldOptions(overwrite)))

NextWeld == Weld

SpecWeld == InitWeld /\ [][NextWeld]_vars

----------------------------------------------------------------------------
(* Flatten (gltf_flatten.cpp).                                             *)
(*                                                                         *)
(* A double is kept as Real(w, e), the value w + e * 2^-34 with w and e    *)
(* integers: w carries the authored magnitudes and e the magnitudes around *)
(* the 1e-10 tolerance of the pass (2^-34 < 1e-10 < 2 * 2^-34).  On the    *)
(* affine matrices of a node hierarchy whose linear parts are integral the *)
(* double arithmetic of the pass is exact and is what these operators      *)
(* compute.                                                                *)

Real(w, e) == [w |-> w, e |-> e]

Num(w) == Real(w, 0)

rAdd(a, b) == Real(a.w + b.w, a.e + b.e)

rSub(a, b) == Real(a.w - b.w, a.e - b.e)

\* a * b; the e * e term (a multiple of 2^-68) arises in no product of two
\* affine matrices and is not kept.
rMul(a, b) == Real(a.w * b.w, a.w * b.e + a.e * b.w)

rLess(a, b) == a.w < b.w \/ (a.w = b.w /\ a.e < b.e)

\* std::abs(a) > 1e-10
exceedsTolerance(a) == a.w # 0 \/ a.e >= 2 \/ a.e <= -2

exactQuotient(n, d) ==
    LET bound == IF n < 0 THEN 0 - n ELSE n
    IN CHOOSE q \in (0 - bound) .. bound : q * d = n

\* a / b for an integral divisor that divides a
rDiv(a, b) == Real(exactQuotient(a.w, b.w), exactQuotient(a.e, b.w))

\* std::sqrt of an integral perfect square
rSqrt(a) == Num(CHOOSE r \in 0 .. a.w : r * r = a.w)

identityMatrix ==
    [k \in 1 .. 16 |-> IF k \in {1, 6, 11, 16} THEN Num(1) ELSE Num(0)]

\* Matrices are column-major, as in the source; M(mat, k) is mat[k].
M(mat, k) == mat[k + 1]

\* The quaternion of a proper rotation matrix rotMat (row-major 3x3, k from
\* 0).  With q = sqrt(...) the source's s is 0.5 / q in the first branch
\* and 2 * q in the others; the quotients below are the same values.
rotationOf(rotMat) ==
    LET r(k) == rotMat[k + 1]
        trace == rAdd(rAdd(r(0), r(4)), r(8))
    IN IF rLess(Num(0), trace)
       THEN LET q == rSqrt(rAdd(trace, Num(1)))
            IN <<rDiv(rSub(r(7), r(5)), rMul(Num(2), q)),
                 rDiv(rSub(r(2), r(6)), rMul(Num(2), q)),
                 rDiv(rSub(r(3), r(1)), rMul(Num(2), q)),
                 rDiv(q, Num(2))>>
       ELSE IF rLess(r(4), r(0)) /\ rLess(r(8), r(0))
       THEN LET s == rMul(Num(2), rSqrt(rSub(rSub(rAdd(Num(1), r(0)), r(4)), r(8))))
            IN <<rDiv(s, Num(4)), rDiv(rAdd(r(1), r(3)), s),
                 rDiv(rAdd(r(2), r(6)), s), rDiv(rSub(r(7), r(5)), s)>>
       ELSE IF rLess(r(8), r(4))
       THEN LET s == rMul(Num(2), rSqrt(rSub(rSub(rAdd(Num(1), r(4)), r(0)), r(8))))
            IN <<rDiv(rAdd(r(1), r(3)), s), rDiv(s, Num(4)),
                 rDiv(rAdd(r(5), r(7)), s), rDiv(rSub(r(2), r(6)), s)>>
       ELSE LET s == rMul(Num(2), rSqrt(rSub(rSub(rAdd(Num(1), r(8)), r(0)), r(4))))
            IN <<rDiv(rAdd(r(2), r(6)), s), rDiv(rAdd(r(5), r(7)), s),
                 rDiv(s, Num(4)), rDiv(rSub(r(3), r(1)), s)>>

decomposeMatrix(mat) ==
    LET m(k) == M(mat, k)
        sq(a, b, c) == rSqrt(rAdd(rAdd(rMul(a, a), rMul(b, b)), rMul(c, c)))
        sx == sq(m(0), m(1), m(2))
        sy == sq(m(4), m(5), m(6))
        szAbs == sq(m(8), m(9), m(10))
        det == rAdd(rSub(rMul(m(0), rSub(rMul(m(5), m(10)), rMul(m(6), m(9)))),
                         rMul(m(1), rSub(rMul(m(4), m(10)), rMul(m(6), m(8))))),
                    rMul(m(2), rSub(rMul(m(4), m(9)), rMul(m(5), m(8)))))
        sz == IF rLess(det, Num(0)) THEN rSub(Num(0), szAbs) ELSE szAbs
        row(s, a, b, c, ia, ib, ic) ==
            IF exceedsTolerance(s) THEN <<rDiv(a, s), rDiv(b, s), rDiv(c, s)>>
            ELSE <<Num(ia), Num(ib), Num(ic)>>
        rotMat == row(sx, m(0), m(1), m(2), 1, 0, 0)
                  \o row(sy, m(4), m(5), m(6), 0, 1, 0)
                  \o row(sz, m(8), m(9), m(10), 0, 0, 1)
    IN [translation |-> <<m(12), m(13), m(14)>>,
        rotation |-> rotationOf(rotMat),
        scale |-> <<sx, sy, sz>>]

getNodeMatrix(node) ==
    IF node.matrix # <<>> /\ Len(node.matrix) = 16 THEN node.matrix
    ELSE LET translation == IF node.translation = <<>>
                            THEN <<Num(0), Num(0), Num(0)>> ELSE node.translation
             rotation == IF node.rotation = <<>>
                         THEN <<Num(0), Num(0), Num(0), Num(1)>> ELSE node.rotation
             scale == IF node.scale = <<>>
                      THEN <<Num(1), Num(1), Num(1)>> ELSE node.scale
             x == rotation[1]
             y == rotation[2]
             z == rotation[3]
             w == rotation[4]
             x2 == rAdd(x, x)
             y2 == rAdd(y, y)
             z2 == rAdd(z, z)
             xx == rMul(x, x2)
             xy == rMul(x, y2)
             xz == rMul(x, z2)
             yy == rMul(y, y2)
             yz == rMul(y, z2)
             zz == rMul(z, z2)
             wx == rMul(w, x2)
             wy == rMul(w, y2)
             wz == rMul(w, z2)
         IN <<rMul(rSub(Num(1), rAdd(yy, zz)), scale[1]),
              rMul(rAdd(xy, wz), scale[1]),
              rMul(rSub(xz, wy), scale[1]),
              Num(0),
              rMul(rSub(xy, wz), scale[2]),
              rMul(rSub(Num(1), rAdd(xx, zz)), scale[2]),
              rMul(rAdd(yz, wx), scale[2]),
              Num(0),
              rMul(rAdd(xz, wy), scale[3]),
              rMul(rSub(yz, wx), scale[3]),
              rMul(rSub(Num(1), rAdd(xx, yy)), scale[3]),
              Num(0),
              translation[1], translation[2], translation[3], Num(1)>>

setNodeMatrix(node, matrix) ==
    LET trs == decomposeMatrix(matrix)
    IN [node EXCEPT !.translation = trs.translation,
                    !.rotation = trs.rotation,
                    !.scale = trs.scale,
                    !.matrix = <<>>]

multiplyMatrices(a, b) ==
    [n \in 1 .. 16 |->
        LET row == (n - 1) % 4
            col == (n - 1) \div 4
            term(k) == rMul(M(a, row + (k * 4)), M(b, k + (col * 4)))
        IN rAdd(rAdd(rAdd(rAdd(Num(0), term(0)), term(1)), term(2)), term(3))]

\* parentMap: the last node, in table order, that lists the child.
buildParentMap(m) ==
    [c \in Indices(m.nodes) |->
        LET parents == {i \in Indices(m.nodes) : c \in SeqRange(At(m.nodes, i).children)}
        IN IF parents = {} THEN -1
           ELSE CHOOSE i \in parents : \A j \in parents : j <= i]

flattenJoints(m) ==
    UNION {SeqRange(m.skins[k].joints) : k \in 1 .. Len(m.skins)}

flattenAnimated(m) ==
    UNION {{m.animations[a].channels[c].target_node :
               c \in {c \in 1 .. Len(m.animations[a].channels) :
                         m.animations[a].channels[c].target_path
                         \in {"translation", "rotation", "scale"}}} :
           a \in 1 .. Len(m.animations)}

\* The chain parent, grandparent, ... of a node, nearest first.
RECURSIVE ancestorsFrom(_, _)
ancestorsFrom(parentMap, current) ==
    IF current < 0 THEN <<>>
    ELSE <<current>> \o ancestorsFrom(parentMap, parentMap[current])

hasConstrainedAncestor(m, parentMap, i) ==
    \E a \in SeqRange(ancestorsFrom(parentMap, parentMap[i])) :
        a \in flattenJoints(m) \/ a \in flattenAnimated(m)

getDepth(parentMap, nodeIdx) == Len(ancestorsFrom(parentMap, parentMap[nodeIdx]))

\* nodesToFlatten collected without the constraint checks: every childless
\* node that has a parent.
flattenCandidatesUnconstrained(m, parentMap) ==
    {i \in Indices(m.nodes) :
        /\ At(m.nodes, i).children = <<>>
        /\ parentMap[i] >= 0}

\* nodesToFlatten before the sort: the unconstrained childless nodes that
\* have a parent.
flattenCandidates(m, parentMap) ==
    {i \in Indices(m.nodes) :
        /\ i \notin flattenAnimated(m)
        /\ i \notin flattenJoints(m)
        /\ ~hasConstrainedAncestor(m, parentMap, i)
        /\ At(m.nodes, i).children = <<>>
        /\ parentMap[i] >= 0}

\* The orders std::sort may leave nodesToFlatten in: deepest first, nodes of
\* equal depth in any order.
flattenOrders(m) ==
    LET parentMap == buildParentMap(m)
        candidates == flattenCandidates(m, parentMap)
    IN {order \in [1 .. Cardinality(candidates) -> candidates] :
           /\ \A a, b \in 1 .. Cardinality(candidates) :
                 a # b => order[a] # order[b]
           /\ \A a, b \in 1 .. Cardinality(candidates) :
                 a < b => getDepth(parentMap, order[a]) >= getDepth(parentMap, order[b])}

\* The test of the shortcut: an ancestor counts as identity when it has no
\* matrix and its translation, rotation and scale are absent or within
\* 1e-10 of (0,0,0), (0,0,0,1) and (1,1,1).
ancestorIsIdentity(node) ==
    /\ node.matrix = <<>>
    /\ ~(/\ node.translation # <<>>
         /\ \E k \in 1 .. 3 : exceedsTolerance(node.translation[k]))
    /\ ~(/\ node.rotation # <<>>
         /\ \/ \E k \in 1 .. 3 : exceedsTolerance(node.rotation[k])
            \/ exceedsTolerance(rSub(node.rotation[4], Num(1))))
    /\ ~(/\ node.scale # <<>>
         /\ \E k \in 1 .. 3 : exceedsTolerance(rSub(node.scale[k], Num(1))))

RECURSIVE worldMatrixOver(_, _, _)
worldMatrixOver(m, chain, worldMatrix) ==
    IF chain = <<>> THEN worldMatrix
    ELSE worldMatrixOver(m, Tail(chain),
                         multiplyMatrices(worldMatrix,
                                          getNodeMatrix(At(m.nodes, Head(chain)))))

Reverse(s) == [k \in 1 .. Len(s) |-> s[Len(s) + 1 - k]]

\* Remove the node from its parent's children and push it to the scenes.
flattenDetach(m, nodeIdx, parentIdx, sceneIndices) ==
    [m EXCEPT
        !.nodes[parentIdx + 1].children = SelectSeq(@, LAMBDA c : c # nodeIdx),
        !.scenes = [k \in 1 .. Len(@) |->
                       IF k \in sceneIndices /\ nodeIdx \notin SeqRange(@[k])
                       THEN Append(@[k], nodeIdx) ELSE @[k]]]

\* One iteration of the flatten loop.
flattenNode(st, nodeIdx) ==
    LET m == st.model
        parentMap == st.parentMap
        chain == ancestorsFrom(parentMap, nodeIdx)
        rootNode == chain[Len(chain)]
        sceneIndices == {k \in 1 .. Len(m.scenes) : rootNode \in SeqRange(m.scenes[k])}
        parentIdx == parentMap[nodeIdx]
        ancestors == ancestorsFrom(parentMap, parentIdx)
        parentIsIdentity ==
            \A k \in 1 .. Len(ancestors) : ancestorIsIdentity(At(m.nodes, ancestors[k]))
        worldMatrix ==
            multiplyMatrices(worldMatrixOver(m, Reverse(ancestors), identityMatrix),
                             getNodeMatrix(At(m.nodes, nodeIdx)))
        baked == [m EXCEPT !.nodes[nodeIdx + 1] = setNodeMatrix(@, worldMatrix)]
    IN IF parentIdx < 0 THEN st
       ELSE [model |-> flattenDetach(IF parentIsIdentity THEN m ELSE baked,
                                     nodeIdx, parentIdx, sceneIndices),
             parentMap |-> [parentMap EXCEPT ![nodeIdx] = -1],
             flattenedCount |-> st.flattenedCount + 1]

RECURSIVE flattenLoop(_, _)
flattenLoop(st, order) ==
    IF order = <<>> THEN st
    ELSE flattenLoop(flattenNode(st, Head(order)), Tail(order))

\* GltfFlatten::process(model, cleanup) with nodesToFlatten sorted as order;
\* cleanup is not read.
FlattenProcess(m, cleanup, order) ==
    IF Len(m.nodes) = 0 THEN [model |-> m, flattenedCount |-> 0]
    ELSE LET st == flattenLoop([model |-> m, parentMap |-> buildParentMap(m),
                                flattenedCount |-> 0], order)
         IN [model |-> st.model, flattenedCount |-> st.flattenedCount]

\* The documents on which flatten reads only elements that exist: a node's
\* translation, rotation and scale are absent or complete.
FlattenDefined(m) ==
    \A i \in 1 .. Len(m.nodes) :
        /\ m.nodes[i].translation = <<>> \/ Len(m.nodes[i].translation) = 3
        /\ m.nodes[i].rotation = <<>> \/ Len(m.nodes[i].rotation) = 4
        /\ m.nodes[i].scale = <<>> \/ Len(m.nodes[i].scale) = 3

----------------------------------------------------------------------------
(* Flatten: the documents it starts from and its action.                   *)

\* The local transforms a node of the family may carry.
FlattenKinds == {"none", "t100", "t020", "tiny", "scale2", "turnX", "matrix100"}

Vec(x, y, z) == <<x, y, z>>

flattenTransform(node, kind) ==
    IF kind = "t100"
    THEN [node EXCEPT !.translation = Vec(Num(1), Num(0), Num(0))]
    ELSE IF kind = "t020"
    THEN [node EXCEPT !.translation = Vec(Num(0), Num(2), Num(0))]
    ELSE IF kind = "tiny"
    THEN [node EXCEPT !.translation = Vec(Real(0, 1), Num(0), Num(0))]
    ELSE IF kind = "scale2"
    THEN [node EXCEPT !.scale = Vec(Num(2), Num(2), Num(2))]
    ELSE IF kind = "turnX"
    THEN [node EXCEPT !.rotation = <<Num(1), Num(0), Num(0), Num(0)>>]
    ELSE IF kind = "matrix100"
    THEN [node EXCEPT !.matrix = [identityMatrix EXCEPT ![13] = Num(1)]]
    ELSE node

\* The forests of the family: parents[i + 1] is the parent of node i (-1
\* for a root, otherwise a node of lower index).
FlattenShapes ==
    {<<-1, 0>>, <<-1, -1, -1>>, <<-1, -1, 0>>, <<-1, -1, 1>>,
     <<-1, 0, -1>>, <<-1, 0, 0>>, <<-1, 0, 1>>, <<2, 2, -1>>}

\* What else the document holds: a skin whose joint is node 1, an animation
\* of node 0's translation or of node 1's weights, or a second scene.
FlattenVariants == {"plain", "joint", "translation", "weights", "twoScenes"}

\* Every root is a root of scene 0; the second scene has node 0 as root.
FlattenDoc(parents, kinds, variant) ==
    LET count == Len(parents)
        childrenOf(i) == SeqOfSet({c \in 0 .. (count - 1) : parents[c + 1] = i})
        roots == SeqOfSet({c \in 0 .. (count - 1) : parents[c + 1] = -1})
    IN [EmptyModel EXCEPT
           !.scenes = IF variant = "twoScenes" THEN <<roots, <<0>>>> ELSE <<roots>>,
           !.nodes = [i \in 1 .. count |->
                         flattenTransform(Node(childrenOf(i - 1),
                                               IF childrenOf(i - 1) = <<>> THEN 0 ELSE -1,
                                               -1, -1, FALSE),
                                          kinds[i])],
           !.meshes = <<Mesh(<<Primitive(NoAttributes, -1, -1, MODE_TRIANGLES)>>)>>,
           !.skins = IF variant = "joint"
                     THEN <<Skin(<<1>>, -1, -1)>> ELSE <<>>,
           !.animations = IF variant = "translation"
                          THEN <<Animation(<<Channel(0, 0, "translation")>>,
                                           <<AnimSampler(-1, -1)>>)>>
                          ELSE IF variant = "weights"
                          THEN <<Animation(<<Channel(0, 1, "weights")>>,
                                           <<AnimSampler(-1, -1)>>)>>
                          ELSE <<>>]

\* The root may carry any transform of FlattenKinds, the other nodes a
\* translation (authored as TRS or as a matrix) or none.
FlattenDocs ==
    UNION {{FlattenDoc(parents, kinds, variant) :
               kinds \in {k \in [1 .. Len(parents) -> FlattenKinds] :
                             \A i \in 2 .. Len(parents) :
                                 k[i] \notin {"scale2", "turnX"}},
               variant \in FlattenVariants} :
           parents \in FlattenShapes}

InitFlatten == PassInit(FlattenDocs)

\* GltfFlatten::process(model, cleanup); the options record keeps the
\* returned count.
Flatten ==
    \E cleanup \in BOOLEAN : \E order \in flattenOrders(model) :
        /\ FlattenDefined(model)
        /\ PassRan("flatten",
                   [cleanup |-> cleanup,
                    flattenedCount |-> FlattenProcess(model, cleanup, order).flattenedCount],
                   FlattenProcess(model, cleanup, order).model)

NextFlatten == Flatten

SpecFlatten == InitFlatten /\ [][NextFlatten]_vars

----------------------------------------------------------------------------
(* Join, simplify and compress as the optim pipeline runs them on the      *)
(* documents of the command-line specification: meshes of fewer than two   *)
(* primitives and index streams of at most one triangle.  The joining of a *)
(* group, the simplifier and the Draco encoder lie outside these           *)
(* documents.                                                              *)

\* GltfJoin::process skips a mesh of fewer than two primitives.
joinSkipsMesh(mesh) == Len(mesh.primitives) < 2

JoinOptions(keepNamed) == [keepMeshes |-> FALSE, keepNamed |-> keepNamed]

\* createPrimGroupKey: material, mode, has-indices, the attributes whose
\* accessor exists (semantic, number of components, component type) and the
\* number of morph targets.  The key is a record where the code builds a
\* string of the same fields.
createPrimGroupKey(prim, m) ==
    [mat |-> prim.material, mode |-> prim.mode,
     idx |-> IF prim.indices >= 0 THEN 1 ELSE 0,
     attrs |-> [s \in {t \in DOMAIN prim.attributes :
                          InRange(prim.attributes[t], m.accessors)} |->
                   <<getElementSize(At(m.accessors, prim.attributes[s]).type),
                     At(m.accessors, prim.attributes[s]).componentType>>],
     targets |-> Len(prim.targets)]

arePrimitivesCompatible(prim1, prim2, m) ==
    createPrimGroupKey(prim1, m) = createPrimGroupKey(prim2, m)

\* The key process() groups by: keepNamed appends the name of the mesh.
joinGroupKey(mesh, prim, m, options) ==
    [key |-> createPrimGroupKey(prim, m),
     mesh |-> IF options.keepNamed /\ mesh.name # "" THEN mesh.name ELSE ""]

\* The index stream joinPrimitives walks for one source primitive: its
\* indices, or the identity over its POSITION count.
joinSrcIndices(m, prim) ==
    readIndexArray(m, prim.indices,
                   IF prim.indices >= 0 THEN At(m.accessors, prim.indices).count
                   ELSE At(m.accessors, prim.attributes["POSITION"]).count)

\* The positions of the stream where a vertex below srcVertexCount is met
\* for the first time.
joinFirstUses(srcIndices, srcVertexCount) ==
    {k \in 1 .. Len(srcIndices) :
        /\ srcIndices[k] < srcVertexCount
        /\ \A j \in 1 .. (k - 1) : srcIndices[j] # srcIndices[k]}

\* The remap of one source primitive: a vertex gets the next destination
\* index when the stream first uses it; a vertex never used stays EMPTY_U32.
joinRemap(srcIndices, srcVertexCount, dstVertexCount) ==
    LET firstUses == joinFirstUses(srcIndices, srcVertexCount)
    IN [v \in 0 .. (srcVertexCount - 1) |->
           IF \E k \in firstUses : srcIndices[k] = v
           THEN LET first == CHOOSE k \in firstUses : srcIndices[k] = v
                IN dstVertexCount + Cardinality({j \in firstUses : j < first})
           ELSE EMPTY_U32]

\* The remap loop of joinPrimitives from source k on.
RECURSIVE joinRemaps(_, _, _, _, _)
joinRemaps(m, prims, k, dstVertexCount, dstIndicesCount) ==
    IF k > Len(prims)
    THEN [primRemaps |-> <<>>, dstVertexCount |-> dstVertexCount,
          dstIndicesCount |-> dstIndicesCount]
    ELSE LET srcVertexCount == At(m.accessors, prims[k].attributes["POSITION"]).count
             srcIndices == joinSrcIndices(m, prims[k])
             remap == joinRemap(srcIndices, srcVertexCount, dstVertexCount)
             used == Cardinality(joinFirstUses(srcIndices, srcVertexCount))
             rest == joinRemaps(m, prims, k + 1, dstVertexCount + used,
                                dstIndicesCount + Len(srcIndices))
         IN [rest EXCEPT !.primRemaps = <<remap>> \o @]

\* The component type of the joined indices.
joinIndexType(dstVertexCount) ==
    IF dstVertexCount > 65535 THEN UNSIGNED_INT
    ELSE IF dstVertexCount > 255 THEN UNSIGNED_SHORT
    ELSE UNSIGNED_BYTE

\* remapAttribute on the bytes of the destination accessor: the stream is the
\* source's indices, or the identity over the count of the source accessor;
\* slot d takes the bytes of the first stream entry mapped to d, read with
\* the tight stride of the source accessor.
remapAttribute(srcAccessorIdx, srcIndicesIdx, remap, dstData, dstCount, m) ==
    IF srcAccessorIdx < 0 THEN dstData
    ELSE LET srcAccessor == At(m.accessors, srcAccessorIdx)
             src == getAccessorData(srcAccessorIdx, m)
             stride == getElementSize(srcAccessor.type)
                       * getComponentSize(srcAccessor.componentType)
             srcIndices == readIndexArray(m, srcIndicesIdx,
                               IF srcIndicesIdx >= 0
                               THEN At(m.accessors, srcIndicesIdx).count
                               ELSE srcAccessor.count)
         IN concatBytes([d \in 1 .. dstCount |->
                LET hits == {n \in 1 .. Len(srcIndices) : remap[srcIndices[n]] = d - 1}
                IN IF hits = {} THEN Bytes(dstData, (d - 1) * stride, stride)
                   ELSE LET first == CHOOSE n \in hits : \A j \in hits : n <= j
                        IN Bytes(src.data, src.base + srcIndices[first] * stride,
                                 stride)])

\* remapIndices on the index values of the destination accessor: entry
\* dstOffset + n becomes the remapped n-th source index, cast to the
\* destination component type.
remapIndices(srcIndicesIdx, remap, dstIndices, dstOffset, dstComponentType, m) ==
    LET srcIndices == readIndexArray(m, srcIndicesIdx,
                                     At(m.accessors, srcIndicesIdx).count)
    IN [n \in 1 .. Len(dstIndices) |->
           IF n > dstOffset /\ n <= dstOffset + Len(srcIndices)
           THEN indexBytes(remap[srcIndices[n - dstOffset]], dstComponentType)
           ELSE dstIndices[n]]

\* The copy loop of joinPrimitives for one destination attribute, from
\* source k on; a source without the semantic is passed over.
RECURSIVE joinAttribute(_, _, _, _, _, _, _)
joinAttribute(m, prims, primRemaps, k, semantic, dstData, dstCount) ==
    IF k > Len(prims) THEN dstData
    ELSE joinAttribute(m, prims, primRemaps, k + 1, semantic,
             IF semantic \in DOMAIN prims[k].attributes
             THEN remapAttribute(prims[k].attributes[semantic], prims[k].indices,
                                 primRemaps[k], dstData, dstCount, m)
             ELSE dstData,
             dstCount)

\* The copy loop of joinPrimitives for the indices, from source k on;
\* dstOffset advances by the index count of every source.
RECURSIVE joinIndices(_, _, _, _, _, _, _)
joinIndices(m, prims, primRemaps, k, dstIndices, dstOffset, dstComponentType) ==
    IF k > Len(prims) THEN dstIndices
    ELSE IF prims[k].indices < 0
    THEN joinIndices(m, prims, primRemaps, k + 1, dstIndices, dstOffset,
                     dstComponentType)
    ELSE joinIndices(m, prims, primRemaps, k + 1,
                     remapIndices(prims[k].indices, primRemaps[k], dstIndices,
                                  dstOffset, dstComponentType, m),
                     dstOffset + At(m.accessors, prims[k].indices).count,
                     dstComponentType)

\* The allocation loop of joinPrimitives from key k of the template on: one
\* buffer, buffer view (ARRAY_BUFFER) and accessor per attribute, holding
\* the joined data.
RECURSIVE joinAllocate(_, _, _, _, _, _, _, _)
joinAllocate(src, m, prims, primRemaps, keys, k, dstVertexCount, attributes) ==
    IF k > Len(keys) THEN [model |-> m, attributes |-> attributes]
    ELSE LET tplAccessor == At(src.accessors, prims[1].attributes[keys[k]])
             totalBytes == dstVertexCount * getElementSize(tplAccessor.type)
                           * getComponentSize(tplAccessor.componentType)
             data == joinAttribute(src, prims, primRemaps, 1, keys[k],
                                   [b \in 1 .. totalBytes |-> 0], dstVertexCount)
             bv == [BufferView(Len(m.buffers), 0, totalBytes, 0)
                       EXCEPT !.target = TARGET_ARRAY_BUFFER]
             accessor == Accessor(Len(m.bufferViews), 0, tplAccessor.componentType,
                                  tplAccessor.type, dstVertexCount)
             m1 == [m EXCEPT !.buffers = Append(@, Buffer(data)),
                             !.bufferViews = Append(@, bv),
                             !.accessors = Append(@, accessor)]
         IN joinAllocate(src, m1, prims, primRemaps, keys, k + 1, dstVertexCount,
                         [s \in DOMAIN attributes \cup {keys[k]} |->
                             IF s = keys[k] THEN Len(m.accessors) ELSE attributes[s]])

\* The end of joinPrimitives: the index buffer, view and accessor (when the
\* template is indexed) and the joined primitive appended to mesh i.
joinAppend(i, prims, r, a, dstComponentType, data) ==
    LET bv == [BufferView(Len(a.model.buffers), 0, Len(data), 0)
                  EXCEPT !.target = TARGET_ELEMENT_ARRAY_BUFFER]
        accessor == Accessor(Len(a.model.bufferViews), 0, dstComponentType,
                             "SCALAR", r.dstIndicesCount)
        dstPrim == Primitive(a.attributes,
                             IF prims[1].indices >= 0
                             THEN Len(a.model.accessors) ELSE -1,
                             prims[1].material, prims[1].mode)
    IN [joined |-> TRUE,
        model |-> [a.model EXCEPT
                      !.buffers = IF prims[1].indices >= 0
                                  THEN Append(@, Buffer(data)) ELSE @,
                      !.bufferViews = IF prims[1].indices >= 0
                                      THEN Append(@, bv) ELSE @,
                      !.accessors = IF prims[1].indices >= 0
                                    THEN Append(@, accessor) ELSE @,
                      !.meshes[i].primitives = Append(@, dstPrim)]]

\* joinPrimitives once the remaps r are built: the attributes are allocated
\* and filled, then the indices.
joinFill(m, i, prims, r, dstComponentType) ==
    joinAppend(i, prims, r,
               joinAllocate(m, m, prims, r.primRemaps, AttrKeys(prims[1].attributes),
                            1, r.dstVertexCount, NoAttributes),
               dstComponentType,
               concatBytes(joinIndices(m, prims, r.primRemaps, 1,
                                       [n \in 1 .. r.dstIndicesCount |->
                                           indexBytes(0, dstComponentType)],
                                       0, dstComponentType)))

joinRemapped(m, i, prims, r) ==
    joinFill(m, i, prims, r, joinIndexType(r.dstVertexCount))

\* joinPrimitives on the primitives group (positions in mesh i): the joined
\* primitive is appended to the mesh; joined is FALSE where the code
\* returns -1.
joinSources(m, i, group, prims) ==
    IF Len(group) < 2 THEN [joined |-> FALSE, model |-> m]
    ELSE IF \E k \in 2 .. Len(group) : ~arePrimitivesCompatible(prims[1], prims[k], m)
    THEN [joined |-> FALSE, model |-> m]
    ELSE IF \E k \in 1 .. Len(group) :
               \/ "POSITION" \notin DOMAIN prims[k].attributes
               \/ ("POSITION" \in DOMAIN prims[k].attributes)
                   /\ prims[k].attributes["POSITION"] < 0
    THEN [joined |-> FALSE, model |-> m]
    ELSE joinRemapped(m, i, prims, joinRemaps(m, prims, 1, 0, 0))

joinPrimitives(m, i, group) ==
    joinSources(m, i, group,
                [k \in 1 .. Len(group) |-> m.meshes[i].primitives[group[k]]])

\* The groups process() builds for mesh i: the positions of the primitives
\* without morph targets that share a key, in ascending order; only the
\* groups of two or more are joined.
joinGroups(m, i, options) ==
    LET mesh == m.meshes[i]
        grouped == {p \in 1 .. Len(mesh.primitives) :
                       Len(mesh.primitives[p].targets) = 0}
        key(p) == joinGroupKey(mesh, mesh.primitives[p], m, options)
    IN {g \in {SeqOfSet({q \in grouped : key(q) = key(p)}) : p \in grouped} :
           Len(g) >= 2}

\* The groups come out of a std::unordered_map, whose iteration order is
\* unspecified: order ranks the primitives of a mesh, and the groups are
\* taken by the rank of their first primitive.
joinRank(order, p) == IF p \in DOMAIN order THEN order[p] ELSE Len(order) + p

RECURSIVE joinGroupSeq(_, _)
joinGroupSeq(groups, order) ==
    IF groups = {} THEN <<>>
    ELSE LET first == CHOOSE g \in groups :
                          \A h \in groups : joinRank(order, g[1]) <= joinRank(order, h[1])
         IN <<first>> \o joinGroupSeq(groups \ {first}, order)

\* The join loop of process() over the groups of mesh i, from group k on;
\* r is what joinPrimitives returned for group k.
RECURSIVE joinGroupsFrom(_, _, _, _, _)
RECURSIVE joinGroupDone(_, _, _, _, _)
joinGroupDone(r, i, groups, k, primsToRemove) ==
    joinGroupsFrom(r.model, i, groups, k + 1,
                   IF r.joined
                   THEN primsToRemove \cup {groups[k][n] : n \in 1 .. Len(groups[k])}
                   ELSE primsToRemove)

joinGroupsFrom(m, i, groups, k, primsToRemove) ==
    IF k > Len(groups) THEN [model |-> m, primsToRemove |-> primsToRemove]
    ELSE joinGroupDone(joinPrimitives(m, i, groups[k]), i, groups, k, primsToRemove)

\* The end of one mesh of process(): the originals of the joined groups are
\* dropped.
joinDropOriginals(i, r) ==
    LET primitives == r.model.meshes[i].primitives
        kept == SeqOfSet({p \in 1 .. Len(primitives) : p \notin r.primsToRemove})
    IN IF r.primsToRemove = {} THEN r.model
       ELSE [r.model EXCEPT !.meshes[i].primitives =
                [n \in 1 .. Len(kept) |-> primitives[kept[n]]]]

\* One mesh of process(): join every group, then drop the originals of the
\* groups that were joined.
joinMesh(m, i, options, order) ==
    IF joinSkipsMesh(m.meshes[i]) THEN m
    ELSE joinDropOriginals(i, joinGroupsFrom(m, i,
                                  joinGroupSeq(joinGroups(m, i, options), order),
                                  1, {}))

RECURSIVE joinFrom(_, _, _, _)
joinFrom(m, i, options, order) ==
    IF i > Len(m.meshes) THEN m
    ELSE joinFrom(joinMesh(m, i, options, order), i + 1, options, order)

\* GltfJoin::process: every mesh in order; it always returns true.
JoinProcess(m, options, order) ==
    [ok |-> TRUE, model |-> joinFrom(m, 1, options, order)]

\* The reads joinPrimitives makes without a check: the accessors of the
\* template's attributes, the buffer views and buffers behind every accessor
\* it reads, the bytes of the streams, and remap[srcIndex] for every index
\* of a source (remapIndices and remapAttribute do not test the index
\* against the vertex count).
joinReadsOk(m, accessorIdx, count) ==
    /\ InRange(accessorIdx, m.accessors)
    /\ weldResolves(m, accessorIdx)
    /\ LET accessor == At(m.accessors, accessorIdx)
           src == getAccessorData(accessorIdx, m)
       IN src.base + count * getElementSize(accessor.type)
                     * getComponentSize(accessor.componentType) <= Len(src.data)

joinSourceDefined(m, prim) ==
    /\ InRange(prim.attributes["POSITION"], m.accessors)
    /\ prim.indices >= 0 =>
          joinReadsOk(m, prim.indices, At(m.accessors, prim.indices).count)
    /\ LET srcVertexCount == At(m.accessors, prim.attributes["POSITION"]).count
           srcIndices == joinSrcIndices(m, prim)
       IN /\ \A n \in 1 .. Len(srcIndices) : srcIndices[n] < srcVertexCount
          /\ \A s \in DOMAIN prim.attributes :
                /\ joinReadsOk(m, prim.attributes[s], srcVertexCount)
                /\ prim.indices < 0 =>
                      At(m.accessors, prim.attributes[s]).count <= srcVertexCount

JoinDefined(m, options) ==
    \A i \in 1 .. Len(m.meshes) :
        \A g \in joinGroups(m, i, options) :
            \A n \in 1 .. Len(g) :
                LET prim == m.meshes[i].primitives[g[n]]
                IN ("POSITION" \in DOMAIN prim.attributes
                    /\ prim.attributes["POSITION"] >= 0)
                   => joinSourceDefined(m, prim)

----------------------------------------------------------------------------
(* Documents for join: one mesh of two to four primitives, each with its   *)
(* own buffer holding its POSITION stream and its indices.  The shapes     *)
(* include the quad of four vertices and six indices, a triangle that      *)
(* leaves a vertex unused, a triangle that uses its vertices in descending *)
(* order, and a primitive without indices; the mode separates the groups.  *)

JoinIndexArrays == {<<>>, <<0, 1, 2>>, <<2, 1, 0>>, <<0, 1, 2, 2, 1, 3>>}

JoinShapes ==
    {s \in [count : {3, 4}, indexArray : JoinIndexArrays,
            mode : {MODE_TRIANGLES, MODE_POINTS}] :
        \A n \in 1 .. Len(s.indexArray) : s.indexArray[n] < s.count}

\* Vertex v of primitive k: every vertex of the document has its own bytes.
joinVertex(k, v) == F32(2) \o F32(0) \o <<k, v, 0, 0>>

JoinDoc(shapes, indexType) ==
    LET positions(k) == concatBytes([v \in 1 .. shapes[k].count |-> joinVertex(k, v - 1)])
        indexData(k) == concatBytes([n \in 1 .. Len(shapes[k].indexArray) |->
                                        indexBytes(shapes[k].indexArray[n], indexType)])
        primitive(k) == Primitive([POSITION |-> 2 * (k - 1)],
                                  IF shapes[k].indexArray = <<>> THEN -1
                                  ELSE 2 * (k - 1) + 1,
                                  -1, shapes[k].mode)
    IN [EmptyModel EXCEPT
           !.scenes = <<<<0>>>>,
           !.nodes = <<Node(<<>>, 0, -1, -1, FALSE)>>,
           !.meshes = <<[Mesh([k \in 1 .. Len(shapes) |-> primitive(k)])
                            EXCEPT !.name = "m"]>>,
           !.accessors =
               [a \in 1 .. 2 * Len(shapes) |->
                   LET k == (a + 1) \div 2
                   IN IF a % 2 = 1
                      THEN Accessor(a - 1, 0, FLOAT, "VEC3", shapes[k].count)
                      ELSE Accessor(a - 1, 0, indexType, "SCALAR",
                                    Len(shapes[k].indexArray))],
           !.bufferViews =
               [a \in 1 .. 2 * Len(shapes) |->
                   LET k == (a + 1) \div 2
                   IN IF a % 2 = 1
                      THEN BufferView(k - 1, 0, Len(positions(k)), 0)
                      ELSE BufferView(k - 1, Len(positions(k)), Len(indexData(k)), 0)],
           !.buffers = [k \in 1 .. Len(shapes) |-> Buffer(positions(k) \o indexData(k))]]

\* Two shapes, then copies of them for the third and fourth primitive.
JoinDocs ==
    {JoinDoc([k \in 1 .. size |-> IF k % 2 = 1 THEN first ELSE second], indexType) :
        first \in {s \in JoinShapes : s.mode = MODE_TRIANGLES},
        second \in JoinShapes,
        size \in {2, 3, 4},
        indexType \in {UNSIGNED_BYTE, UNSIGNED_SHORT}}

\* The two orders in which a mesh of at most two groups can be joined.
JoinOrders == {<<1, 2, 3, 4>>, <<4, 3, 2, 1>>}

InitJoin == PassInit(JoinDocs)

\* GltfJoin::process(model, options)
Join ==
    \E keepNamed \in BOOLEAN, order \in JoinOrders :
        /\ JoinDefined(model, JoinOptions(keepNamed))
        /\ PassRan("join", JoinOptions(keepNamed),
                   JoinProcess(model, JoinOptions(keepNamed), order).model)

NextJoin == Join

SpecJoin == InitJoin /\ [][NextJoin]_vars

----------------------------------------------------------------------------

MODE_TRIANGLE_STRIP == 5
MODE_TRIANGLE_FAN == 6

\* The target index count of simplifyPrimitive for a ratio given in percent.
simplifyTarget(indexCount, ratioPercent) ==
    LET target == (((indexCount * ratioPercent) \div 100) \div 3) * 3
    IN IF target < 3 THEN 3 ELSE target

\* The primitives the simplify loop leaves alone: not a triangle mode, or
\* simplifyPrimitive returns before it calls the simplifier.
simplifySkips(m, primitive, ratioPercent) ==
    \/ primitive.mode \notin {MODE_TRIANGLES, MODE_TRIANGLE_STRIP, MODE_TRIANGLE_FAN}
    \/ /\ primitive.mode = MODE_TRIANGLES
       /\ \/ "POSITION" \notin DOMAIN primitive.attributes
          \/ ~InRange(primitive.attributes["POSITION"], m.accessors)
          \/ At(m.accessors, primitive.attributes["POSITION"]).count = 0
          \/ ~InRange(primitive.indices, m.accessors)
          \/ At(m.accessors, primitive.indices).count = 0
          \/ At(m.accessors, primitive.indices).count % 3 # 0
          \/ ~weldResolves(m, primitive.attributes["POSITION"])
          \/ getAccessorData(primitive.attributes["POSITION"], m).base
             >= Len(getAccessorData(primitive.attributes["POSITION"], m).data)
          \/ ~weldResolves(m, primitive.indices)
          \/ getAccessorData(primitive.indices, m).base
             >= Len(getAccessorData(primitive.indices, m).data)
          \/ At(m.accessors, primitive.indices).componentType
             \notin {UNSIGNED_BYTE, UNSIGNED_SHORT, UNSIGNED_INT}
          \/ At(m.accessors, primitive.indices).count
             <= simplifyTarget(At(m.accessors, primitive.indices).count, ratioPercent)

\* GltfSimplify::process on a document all of whose primitives are skipped;
\* throws stands for an exception caught by process (it returns false).
SimplifyProcess(m, throws) == [ok |-> ~throws, model |-> m]

\* The documents the two operators above cover.
JoinSimplifyCovered(m) ==
    \A i \in 1 .. Len(m.meshes) :
        /\ joinSkipsMesh(m.meshes[i])
        /\ \A p \in 1 .. Len(m.meshes[i].primitives) :
              \A ratioPercent \in {0, 50, 100} :
                  simplifySkips(m, m.meshes[i].primitives[p], ratioPercent)

DracoExtension == "KHR_draco_mesh_compression"

\* FLT_MAX, above every coordinate of the documents.
FLT_MAX == 2147483646

\* getAccessorInfo of compressPrimitive: whether the accessor resolves, and
\* the stride it reads with.
compressStride(m, accessorIdx) ==
    LET accessor == At(m.accessors, accessorIdx)
        bufferView == At(m.bufferViews, accessor.bufferView)
    IN IF bufferView.byteStride > 0 THEN bufferView.byteStride
       ELSE streamComponentSize(accessor.componentType) * getElementSize(accessor.type)

\* compressPrimitive hands the primitive to the encoder.
compressEncodes(m, primitive) ==
    /\ primitive.mode = MODE_TRIANGLES
    /\ primitive.indices >= 0
    /\ "POSITION" \in DOMAIN primitive.attributes
    /\ weldResolves(m, primitive.indices)

\* The bytes kept for an encoded primitive: the "DRACO" magic followed by the
\* faces handed to the encoder.  The encoder is a library; its output is not
\* reproduced.
dracoPayload(m, primitive) ==
    LET numFaces == At(m.accessors, primitive.indices).count \div 3
    IN <<68, 82, 65, 67, 79>>
       \o [k \in 1 .. (3 * numFaces) |->
              readIndexArray(m, primitive.indices, 3 * numFaces)[k] % 256]

\* The primitives of the document in table order, as (mesh, primitive).
RECURSIVE primitiveRefs(_, _, _)
primitiveRefs(m, i, p) ==
    IF i > Len(m.meshes) THEN <<>>
    ELSE IF p > Len(m.meshes[i].primitives) THEN primitiveRefs(m, i + 1, 1)
    ELSE <<<<i, p>>>> \o primitiveRefs(m, i, p + 1)

\* The bounds block of process() for one accessor.
compressBounds(m, accessorIdx) ==
    LET accessor == At(m.accessors, accessorIdx)
    IN IF /\ accessor.bufferView >= 0
          /\ accessor.minValues = <<>>
          /\ accessor.bufferView < Len(m.bufferViews)
          /\ InRange(At(m.bufferViews, accessor.bufferView).buffer, m.buffers)
          /\ accessor.type = "VEC3"
          /\ accessor.componentType = FLOAT
       THEN LET bufferView == At(m.bufferViews, accessor.bufferView)
                r == boundsLoop(At(m.buffers, bufferView.buffer).data,
                                bufferView.byteOffset + accessor.byteOffset,
                                IF bufferView.byteStride > 0
                                THEN bufferView.byteStride ELSE 12,
                                0, accessor.count,
                                <<FLT_MAX, FLT_MAX, FLT_MAX>>,
                                <<0 - FLT_MAX, 0 - FLT_MAX, 0 - FLT_MAX>>)
            IN [m EXCEPT !.accessors[accessorIdx + 1].minValues = r.minValues,
                         !.accessors[accessorIdx + 1].maxValues = r.maxValues]
       ELSE m

RECURSIVE compressClear(_, _)
compressClear(m, refs) ==
    IF refs = <<>> THEN m
    ELSE compressClear(IF InRange(Head(refs), m.accessors)
                       THEN [m EXCEPT !.accessors[Head(refs) + 1].bufferView = -1]
                       ELSE m,
                       Tail(refs))

\* The second loop of process(): one buffer view per compressed primitive,
\* the extension's bufferView, the POSITION bounds, and the accessors
\* detached from their views.
RECURSIVE compressAttach(_, _, _, _)
compressAttach(m, compressed, bufferIdx, byteOffset) ==
    IF compressed = <<>> THEN m
    ELSE LET i == Head(compressed).meshIdx
             p == Head(compressed).primIdx
             primitive == m.meshes[i].primitives[p]
             byteLength == Head(compressed).byteLength
             m1 == [m EXCEPT
                      !.bufferViews = Append(@, BufferView(bufferIdx, byteOffset,
                                                           byteLength, 0)),
                      !.meshes[i].primitives[p].draco = <<Len(m.bufferViews)>>]
             position == primitive.attributes["POSITION"]
             m2 == IF InRange(position, m1.accessors)
                   THEN compressBounds(m1, position) ELSE m1
             m3 == compressClear(m2, AttrValues(primitive.attributes)
                                     \o <<primitive.indices>>)
         IN compressAttach(m3, Tail(compressed), bufferIdx, byteOffset + byteLength)

\* GltfCompress::process in a build with Draco; encodes tells whether the
\* encoder reports success.
CompressProcess(m, encodes) ==
    LET named == [m EXCEPT !.extensionsUsed = @ \cup {DracoExtension},
                           !.extensionsRequired = @ \cup {DracoExtension}]
        refs == SelectSeq(primitiveRefs(m, 1, 1),
                          LAMBDA r : /\ encodes
                                     /\ compressEncodes(m, m.meshes[r[1]].primitives[r[2]]))
        payloads == [k \in 1 .. Len(refs) |->
                        dracoPayload(m, m.meshes[refs[k][1]].primitives[refs[k][2]])]
        compressed == [k \in 1 .. Len(refs) |->
                          [meshIdx |-> refs[k][1], primIdx |-> refs[k][2],
                           byteLength |-> Len(payloads[k])]]
        bufferData == concatBytes(payloads)
    IN IF compressed # <<>> /\ bufferData # <<>>
       THEN [ok |-> TRUE,
             model |-> compressAttach([named EXCEPT !.buffers = Append(@, Buffer(bufferData))],
                                      compressed, Len(m.buffers), 0)]
       ELSE [ok |-> compressed # <<>>, model |-> named]

\* compressPrimitive dereferences the POSITION accessor before it checks it,
\* and the encoder and the bounds loop read every vertex.
CompressDefined(m) ==
    \A i \in 1 .. Len(m.meshes) : \A p \in 1 .. Len(m.meshes[i].primitives) :
        LET primitive == m.meshes[i].primitives[p]
        IN (/\ primitive.mode = MODE_TRIANGLES
            /\ primitive.indices >= 0
            /\ "POSITION" \in DOMAIN primitive.attributes) =>
              /\ InRange(primitive.attributes["POSITION"], m.accessors)
              /\ InRange(primitive.indices, m.accessors)
              /\ weldResolves(m, primitive.indices) =>
                    /\ getAccessorData(primitive.indices, m).base
                       + At(m.accessors, primitive.indices).count
                         * compressStride(m, primitive.indices)
                       <= Len(getAccessorData(primitive.indices, m).data)
                    /\ \A s \in DOMAIN primitive.attributes :
                          weldResolves(m, primitive.attributes[s]) =>
                             \/ At(m.accessors, primitive.attributes["POSITION"]).count = 0
                             \/ getAccessorData(primitive.attributes[s], m).base
                                + (At(m.accessors, primitive.attributes["POSITION"]).count - 1)
                                  * compressStride(m, primitive.attributes[s])
                                + getElementSize(At(m.accessors, primitive.attributes[s]).type)
                                  * streamComponentSize(
                                        At(m.accessors, primitive.attributes[s]).componentType)
                                <= Len(getAccessorData(primitive.attributes[s], m).data)

----------------------------------------------------------------------------
(* The command-line driver (main.cpp).  A behaviour is one run of the      *)
(* program after the command line has been parsed: the callback of the     *)
(* chosen subcommand runs, then main returns.  records keeps the error and *)
(* success records of the progress stream; progress records are left out.  *)

\* ProgressReporter::error
Error(operation) == [type |-> "error", operation |-> operation]

\* ProgressReporter::success
Success(operation) == [type |-> "success", operation |-> operation]

\* A mesh-carrying node with an empty leaf below it, over a welded-able
\* triangle.
CliLeafDoc ==
    [WeldDoc([v \in 1 .. WeldVertexCount |-> 0], [v \in 1 .. WeldVertexCount |-> 1],
             "tight", TRUE, <<>>, UNSIGNED_SHORT, MODE_TRIANGLES)
        EXCEPT !.scenes = <<<<0>>>>,
               !.nodes = <<Node(<<1>>, 0, -1, -1, FALSE),
                           Node(<<>>, -1, -1, -1, TRUE)>>]

\* The documents the commands load.
CliDocs ==
    {EmptyModel, TwoMeshDoc, CliLeafDoc,
     FlattenDoc(<<-1, 0>>, <<"t100", "t020">>, "plain"),
     FlattenDoc(<<-1, 0, 1>>, <<"scale2", "tiny", "t100">>, "joint"),
     WeldDoc([v \in 1 .. WeldVertexCount |-> IF v = 1 THEN 2 ELSE 0],
             [v \in 1 .. WeldVertexCount |-> 1],
             "tight", FALSE, <<0, 1, 2>>, UNSIGNED_BYTE, MODE_TRIANGLES),
     WeldDoc([v \in 1 .. WeldVertexCount |-> 0],
             [v \in 1 .. WeldVertexCount |-> IF v = WeldVertexCount THEN 3 ELSE 1],
             "tight", TRUE, <<>>, UNSIGNED_SHORT, MODE_POINTS)}

PruneCliDocs ==
    {PruneDoc(<<0>>, <<1>>, -1, 1, <<2>>, x2, <<1>>, -1, FALSE) : x2 \in BOOLEAN}
    \cup {PruneDoc(<<0, 1>>, <<2>>, 0, -1, <<>>, FALSE, <<1, 2>>, -1, TRUE)}

\* The optim flags: at most one --skip-* flag, or all of them.
OptimSkips ==
    {{}, {"dedupe"}, {"flatten"}, {"join"}, {"weld"}, {"prune"},
     {"dedupe", "flatten", "join", "weld", "prune"}}

\* The parsed command lines.
CliCommands ==
    {[name |-> "merge", inputs |-> n] : n \in {1, 2}}
    \cup {[name |-> "dedupe", doc |-> d, options |-> o] :
             d \in CliDocs, o \in DedupOptionSet}
    \cup {[name |-> "info"]}
    \cup {[name |-> "flatten", doc |-> d, flattenCleanup |-> c] :
             d \in CliDocs, c \in BOOLEAN}
    \cup {[name |-> "join", doc |-> d] : d \in CliDocs}
    \cup {[name |-> "weld", doc |-> d, weldOverwrite |-> o] :
             d \in CliDocs, o \in BOOLEAN}
    \cup {[name |-> "prune", doc |-> d, keepLeaves |-> l, keepAttributes |-> a,
           keepExtras |-> x] :
             d \in PruneCliDocs \cup {CliLeafDoc},
             l \in BOOLEAN, a \in BOOLEAN, x \in BOOLEAN}
    \cup {[name |-> "simplify", doc |-> d] : d \in CliDocs}
    \cup {[name |-> "optim", doc |-> d, inputs |-> n,
           optimSkipDedupe |-> "dedupe" \in s, optimSkipFlatten |-> "flatten" \in s,
           optimSkipJoin |-> "join" \in s, optimSkipWeld |-> "weld" \in s,
           optimSkipPrune |-> "prune" \in s,
           optimSimplify |-> y, optimCompress |-> z] :
             d \in CliDocs, n \in {1, 2}, s \in OptimSkips,
             y \in BOOLEAN, z \in BOOLEAN}

InitCli ==
    /\ cmd \in CliCommands
    /\ pc = "start"
    /\ records = <<>>
    /\ exitCode = -1
    /\ passLog = <<>>
    /\ model = EmptyModel
    /\ prev = EmptyModel
    /\ lastPass = "none"
    /\ passOpts = [none |-> TRUE]
    /\ steps = 0

\* A callback reads only what exists in the document it processes; the test
\* is on the current state alone.
ReadsDefined(applies, defined) == (applies => defined) = TRUE

\* A callback of the shape load, process, write: it returns after the first
\* of the three that fails, with an error record, or after the success record.
LoadProcessWrite(operation, loads, ok, options, result, writes) ==
    /\ pc = "start"
    /\ cmd.name = operation
    /\ IF ~loads
       THEN /\ UNCHANGED <<passVars, passLog>>
            /\ records' = Append(records, Error(operation))
       ELSE /\ prev' = cmd.doc
            /\ model' = result
            /\ lastPass' = operation
            /\ passOpts' = options
            /\ steps' = steps
            /\ passLog' = Append(passLog, operation)
            /\ records' = Append(records, IF ok /\ writes THEN Success(operation)
                                          ELSE Error(operation))
    /\ pc' = "returned"
    /\ UNCHANGED <<cmd, exitCode>>

\* mergeCmd callback: every input is loaded and merged in turn, then saved.
MergeCmd ==
    /\ pc = "start"
    /\ cmd.name = "merge"
    /\ \E failing \in 0 .. cmd.inputs : \E saves \in BOOLEAN :
          /\ passLog' = Append(passLog, "merge")
          /\ records' = Append(records, IF failing = 0 /\ saves THEN Success("merge")
                                        ELSE Error("merge"))
    /\ pc' = "returned"
    /\ UNCHANGED <<passVars, cmd, exitCode>>

\* dedupeCmd callback; the loader fails with an error text or without one.
DedupeCmd ==
    \E load \in {"ok", "error", "failed"} : \E throws \in BOOLEAN :
    \E writes \in BOOLEAN :
        /\ ReadsDefined(cmd.name = "dedupe" /\ load = "ok", DedupDefined(cmd.doc))
        /\ LoadProcessWrite("dedupe", load = "ok", ~throws, cmd.options,
                            IF throws THEN cmd.doc
                            ELSE DedupProcess(cmd.doc, cmd.options),
                            writes)

\* infoCmd callback: an error record on failure, no record otherwise.
InfoCmd ==
    /\ pc = "start"
    /\ cmd.name = "info"
    /\ \E analyzes \in BOOLEAN :
          records' = IF analyzes THEN records ELSE Append(records, Error("info"))
    /\ pc' = "returned"
    /\ UNCHANGED <<passVars, cmd, exitCode, passLog>>

\* flattenCmd callback; the count process returns is not tested.
FlattenCmd ==
    \E loads \in BOOLEAN : \E writes \in BOOLEAN :
        /\ ReadsDefined(cmd.name = "flatten" /\ loads, FlattenDefined(cmd.doc))
        /\ \E order \in IF cmd.name = "flatten" /\ loads
                        THEN flattenOrders(cmd.doc) ELSE {<<>>} :
              LoadProcessWrite("flatten", loads, TRUE,
                               [cleanup |-> cmd.flattenCleanup],
                               FlattenProcess(cmd.doc, cmd.flattenCleanup, order).model,
                               writes)

\* joinCmd callback
JoinCmd ==
    \E loads \in BOOLEAN : \E writes \in BOOLEAN :
        /\ ReadsDefined(cmd.name = "join" /\ loads, JoinSimplifyCovered(cmd.doc))
        /\ LoadProcessWrite("join", loads, JoinProcess(cmd.doc, JoinOptions(FALSE), <<>>).ok, [none |-> TRUE],
                            JoinProcess(cmd.doc, JoinOptions(FALSE), <<>>).model, writes)

\* weldCmd callback
WeldCmd ==
    \E loads \in BOOLEAN : \E writes \in BOOLEAN :
        /\ ReadsDefined(cmd.name = "weld" /\ loads,
                        WeldDefined(cmd.doc, WeldOptions(cmd.weldOverwrite)))
        /\ LoadProcessWrite("weld", loads, TRUE, WeldOptions(cmd.weldOverwrite),
                            WeldProcess(cmd.doc, WeldOptions(cmd.weldOverwrite)),
                            writes)

\* pruneCmd callback: the options built from the flags are not handed to
\* process, which runs with its default argument.
PruneCmd ==
    \E loads \in BOOLEAN : \E writes \in BOOLEAN :
        /\ ReadsDefined(cmd.name = "prune" /\ loads, PruneDefined(cmd.doc))
        /\ LoadProcessWrite("prune", loads, TRUE, DefaultPruneOptions,
                            PruneProcess(cmd.doc, DefaultPruneOptions), writes)

\* simplifyCmd callback
SimplifyCmd ==
    \E loads \in BOOLEAN : \E throws \in BOOLEAN : \E writes \in BOOLEAN :
        /\ ReadsDefined(cmd.name = "simplify" /\ loads, JoinSimplifyCovered(cmd.doc))
        /\ LoadProcessWrite("simplify", loads, SimplifyProcess(cmd.doc, throws).ok,
                            [none |-> TRUE],
                            SimplifyProcess(cmd.doc, throws).model, writes)

\* The optim callback with its steps in another order (weld before join).
optimStagesWeldFirst ==
    <<"dedupe", "flatten", "weld", "join", "simplify", "compress", "prune",
      "bounds", "write">>

\* The steps of the optim callback after the load, in program order.
optimStages ==
    <<"dedupe", "flatten", "join", "weld", "simplify", "compress", "prune",
      "bounds", "write">>

\* The step the callback reaches when it leaves the given one.
optimAfter(stage) ==
    LET k == CHOOSE n \in 1 .. Len(optimStages) : optimStages[n] = stage
    IN IF k < Len(optimStages) THEN optimStages[k + 1] ELSE "returned"

\* One step of the optim callback: skipped, or run on the document with an
\* error record and a return when the pass reports failure.
OptimStep(stage, runs, ok, options, result) ==
    /\ pc = stage
    /\ cmd.name = "optim"
    /\ IF ~runs
       THEN /\ UNCHANGED <<passVars, records, passLog>>
            /\ pc' = optimAfter(stage)
       ELSE /\ prev' = model
            /\ model' = result
            /\ lastPass' = stage
            /\ passOpts' = options
            /\ steps' = steps
            /\ passLog' = Append(passLog, stage)
            /\ records' = IF ok THEN records ELSE Append(records, Error("optim"))
            /\ pc' = IF ok THEN optimAfter(stage) ELSE "returned"
    /\ UNCHANGED <<cmd, exitCode>>

\* optim, load: several inputs are merged, a single one is loaded.
OptimLoad ==
    /\ pc = "start"
    /\ cmd.name = "optim"
    /\ passLog' = IF cmd.inputs > 1 THEN Append(passLog, "merge") ELSE passLog
    /\ \E loads \in BOOLEAN :
          IF loads
          THEN /\ model' = cmd.doc
               /\ prev' = cmd.doc
               /\ records' = records
               /\ pc' = Head(optimStages)
          ELSE /\ UNCHANGED <<model, prev>>
               /\ records' = Append(records, Error("optim"))
               /\ pc' = "returned"
    /\ UNCHANGED <<lastPass, passOpts, steps, cmd, exitCode>>

\* optim, step 2: dedupe with every sub-pass enabled.
OptimDedupe ==
    \E throws \in BOOLEAN :
        /\ ReadsDefined(pc = "dedupe" /\ ~cmd.optimSkipDedupe, DedupDefined(model))
        /\ OptimStep("dedupe", ~cmd.optimSkipDedupe, ~throws, DefaultDedupOptions,
                     IF throws THEN model
                     ELSE DedupProcess(model, DefaultDedupOptions))

\* optim, step 3: flatten; the count it returns is not tested.
OptimFlatten ==
    /\ ReadsDefined(pc = "flatten" /\ ~cmd.optimSkipFlatten, FlattenDefined(model))
    /\ \E order \in IF pc = "flatten" /\ ~cmd.optimSkipFlatten
                    THEN flattenOrders(model) ELSE {<<>>} :
          OptimStep("flatten", ~cmd.optimSkipFlatten, TRUE, [cleanup |-> TRUE],
                    FlattenProcess(model, TRUE, order).model)

\* optim, step 4: join.
OptimJoin ==
    /\ ReadsDefined(pc = "join" /\ ~cmd.optimSkipJoin, JoinSimplifyCovered(model))
    /\ OptimStep("join", ~cmd.optimSkipJoin, JoinProcess(model, JoinOptions(FALSE), <<>>).ok, [none |-> TRUE],
                 JoinProcess(model, JoinOptions(FALSE), <<>>).model)

\* optim, step 5: weld with overwrite.
OptimWeld ==
    /\ ReadsDefined(pc = "weld" /\ ~cmd.optimSkipWeld,
                    WeldDefined(model, WeldOptions(TRUE)))
    /\ OptimStep("weld", ~cmd.optimSkipWeld, TRUE, WeldOptions(TRUE),
                 WeldProcess(model, WeldOptions(TRUE)))

\* optim, step 6: simplify, on request.
OptimSimplify ==
    \E throws \in BOOLEAN :
        /\ ReadsDefined(pc = "simplify" /\ cmd.optimSimplify, JoinSimplifyCovered(model))
        /\ OptimStep("simplify", cmd.optimSimplify, SimplifyProcess(model, throws).ok,
                     [none |-> TRUE], SimplifyProcess(model, throws).model)

\* optim, step 6.5: Draco compression, on request.
OptimCompress ==
    \E encodes \in BOOLEAN :
        /\ ReadsDefined(pc = "compress" /\ cmd.optimCompress, CompressDefined(model))
        /\ OptimStep("compress", cmd.optimCompress, CompressProcess(model, encodes).ok,
                     [none |-> TRUE], CompressProcess(model, encodes).model)

\* optim, step 7: prune with keepLeaves and keepAttributes off.
OptimPrune ==
    /\ ReadsDefined(pc = "prune" /\ ~cmd.optimSkipPrune, PruneDefined(model))
    /\ OptimStep("prune", ~cmd.optimSkipPrune, TRUE,
                 PruneOptions(FALSE, FALSE, FALSE),
                 PruneProcess(model, PruneOptions(FALSE, FALSE, FALSE)))

\* optim, step 8: bounds of every POSITION accessor; always run.
OptimBounds ==
    /\ ReadsDefined(pc = "bounds", BoundsDefined(model))
    /\ OptimStep("bounds", TRUE, TRUE, [none |-> TRUE], computeAllBounds(model).model)

\* optim, final step: the writer, then the success record.
OptimWrite ==
    /\ pc = "write"
    /\ cmd.name = "optim"
    /\ passLog' = Append(passLog, "write")
    /\ \E writes \in BOOLEAN :
          records' = Append(records, IF writes THEN Success("optim")
                                     ELSE Error("optim"))
    /\ pc' = "returned"
    /\ UNCHANGED <<passVars, cmd, exitCode>>

\* main: parse() has run the callback, whose return value it drops; main
\* returns 0.
MainReturn ==
    /\ pc = "returned"
    /\ exitCode' = 0
    /\ pc' = "exited"
    /\ UNCHANGED <<passVars, cmd, records, passLog>>

NextCli ==
    \/ MergeCmd
    \/ DedupeCmd
    \/ InfoCmd
    \/ FlattenCmd
    \/ JoinCmd
    \/ WeldCmd
    \/ PruneCmd
    \/ SimplifyCmd
    \/ OptimLoad
    \/ OptimDedupe
    \/ OptimFlatten
    \/ OptimJoin
    \/ OptimWeld
    \/ OptimSimplify
    \/ OptimCompress
    \/ OptimPrune
    \/ OptimBounds
    \/ OptimWrite
    \/ MainReturn

SpecCli == InitCli /\ [][NextCli]_vars

----------------------------------------------------------------------------
(* Merge: GltfMerger accumulates the inputs of one command in mergedModel_, *)
(* one loadAndMergeFile at a time.                                          *)

\* MergeOffsets: the sizes of the accumulator's tables before the append.
MergeOffsets(merged) ==
    [nodes |-> Len(merged.nodes), meshes |-> Len(merged.meshes),
     materials |-> Len(merged.materials), textures |-> Len(merged.textures),
     images |-> Len(merged.images), samplers |-> Len(merged.samplers),
     accessors |-> Len(merged.accessors), bufferViews |-> Len(merged.bufferViews),
     skins |-> Len(merged.skins), cameras |-> Len(merged.cameras)]

\* An optional reference is shifted only when it is set.
adjustRef(ref, offset) == IF ref >= 0 THEN ref + offset ELSE ref

adjustNodes(nodes, offsets) ==
    [n \in 1 .. Len(nodes) |->
        [nodes[n] EXCEPT
            !.children = [c \in 1 .. Len(@) |-> @[c] + offsets.nodes],
            !.mesh = adjustRef(@, offsets.meshes),
            !.skin = adjustRef(@, offsets.skins),
            !.camera = adjustRef(@, offsets.cameras)]]

\* Attributes and morph-target attributes are shifted without a test; the
\* extension objects of a primitive are not visited.
adjustMeshes(meshes, offsets) ==
    [i \in 1 .. Len(meshes) |->
        [meshes[i] EXCEPT !.primitives =
            [p \in 1 .. Len(@) |->
                [@[p] EXCEPT
                    !.material = adjustRef(@, offsets.materials),
                    !.attributes = [s \in DOMAIN @ |-> @[s] + offsets.accessors],
                    !.indices = adjustRef(@, offsets.accessors),
                    !.targets = [t \in 1 .. Len(@) |->
                                    [s \in DOMAIN @[t] |-> @[t][s] + offsets.accessors]]]]]]

adjustMaterials(materials, offsets) ==
    [i \in 1 .. Len(materials) |->
        [materials[i] EXCEPT
            !.baseColorTexture.index = adjustRef(@, offsets.textures),
            !.metallicRoughnessTexture.index = adjustRef(@, offsets.textures),
            !.normalTexture.index = adjustRef(@, offsets.textures),
            !.occlusionTexture.index = adjustRef(@, offsets.textures),
            !.emissiveTexture.index = adjustRef(@, offsets.textures)]]

\* adjustTextures with the sampler reference left as it was in the input.
adjustTexturesSourceOnly(textures, offsets) ==
    [i \in 1 .. Len(textures) |->
        [textures[i] EXCEPT !.source = adjustRef(@, offsets.images)]]

adjustTextures(textures, offsets) ==
    [i \in 1 .. Len(textures) |->
        [textures[i] EXCEPT !.source = adjustRef(@, offsets.images),
                            !.sampler = adjustRef(@, offsets.samplers)]]

adjustImages(images, offsets) ==
    [i \in 1 .. Len(images) |->
        [images[i] EXCEPT !.bufferView = adjustRef(@, offsets.bufferViews)]]

adjustAccessors(accessors, offsets) ==
    [i \in 1 .. Len(accessors) |->
        [accessors[i] EXCEPT !.bufferView = adjustRef(@, offsets.bufferViews)]]

adjustAnimations(animations, offsets) ==
    [i \in 1 .. Len(animations) |->
        [animations[i] EXCEPT
            !.samplers = [s \in 1 .. Len(@) |->
                             [@[s] EXCEPT !.input = adjustRef(@, offsets.accessors),
                                          !.output = adjustRef(@, offsets.accessors)]],
            !.channels = [c \in 1 .. Len(@) |->
                             [@[c] EXCEPT !.target_node = adjustRef(@, offsets.nodes)]]]]

adjustSkins(skins, offsets) ==
    [i \in 1 .. Len(skins) |->
        [skins[i] EXCEPT
            !.inverseBindMatrices = adjustRef(@, offsets.accessors),
            !.skeleton = adjustRef(@, offsets.nodes),
            !.joints = [j \in 1 .. Len(@) |-> @[j] + offsets.nodes]]]

\* computeBufferOffsets: the running sum of the sizes of the source buffers.
RECURSIVE computeBufferOffsets(_, _)
computeBufferOffsets(buffers, n) ==
    IF n = 0 THEN <<>>
    ELSE LET before == computeBufferOffsets(buffers, n - 1)
         IN Append(before,
                   IF n = 1 THEN 0
                   ELSE before[n - 1] + Len(buffers[n - 1].data))

\* The buffer views of the source as they are appended: buffer 0, and the
\* byte offset moved by the size of the merged buffer and by the offset of
\* the source buffer (0 when the view names no buffer of the source).
mergeBufferViews(doc, currentBufferSize) ==
    LET bufferOffsets == computeBufferOffsets(doc.buffers, Len(doc.buffers))
    IN [v \in 1 .. Len(doc.bufferViews) |->
           LET view == doc.bufferViews[v]
           IN [view EXCEPT
                  !.buffer = 0,
                  !.byteOffset = @ + currentBufferSize
                                 + (IF view.buffer >= 0 /\ view.buffer < Len(bufferOffsets)
                                    THEN bufferOffsets[view.buffer + 1] ELSE 0)]]

\* A scene handling that takes scene 0 of the source whatever its default.
mergeSceneIndicesFirstScene(doc, defaultScenesOnly) ==
    IF defaultScenesOnly
    THEN IF 0 < Len(doc.scenes) THEN <<0>> ELSE <<>>
    ELSE [s \in 1 .. Len(doc.scenes) |-> s - 1]

\* The roots the scene handling takes from the source: those of its default
\* scene (scene 0 when it has none; nothing when that scene does not exist),
\* or those of all its scenes.
mergeSceneIndices(doc, defaultScenesOnly) ==
    IF defaultScenesOnly
    THEN LET sceneIdx == IF doc.defaultScene >= 0 THEN doc.defaultScene ELSE 0
         IN IF sceneIdx < Len(doc.scenes) THEN <<sceneIdx>> ELSE <<>>
    ELSE [s \in 1 .. Len(doc.scenes) |-> s - 1]

shiftRoots(roots, offset) == [r \in 1 .. Len(roots) |-> roots[r] + offset]

mergeScenes(merged, doc, offsets, keepScenesIndependent, defaultScenesOnly) ==
    LET taken == mergeSceneIndices(doc, defaultScenesOnly)
        shifted == [s \in 1 .. Len(taken) |->
                       shiftRoots(At(doc.scenes, taken[s]), offsets.nodes)]
    IN IF keepScenesIndependent
       THEN LET scenes == merged.scenes \o shifted
            IN [merged EXCEPT
                   !.scenes = scenes,
                   !.defaultScene = IF @ < 0 /\ scenes # <<>> THEN 0 ELSE @]
       ELSE LET created == merged.scenes = <<>>
                scenes == IF created THEN <<<<>>>> ELSE merged.scenes
            IN [merged EXCEPT
                   !.scenes = [scenes EXCEPT ![1] = @ \o concatBytes(shifted)],
                   !.defaultScene = IF created THEN 0 ELSE @]

\* GltfMerger::mergeModelStreaming: doc is appended to the accumulator.
\* extensionsUsed and extensionsRequired are kept as sets of names.
mergeModelStreaming(merged, firstModel, doc, keepScenesIndependent, defaultScenesOnly) ==
    LET start == IF firstModel
                 THEN [merged EXCEPT !.extensionsUsed = doc.extensionsUsed,
                                     !.extensionsRequired = doc.extensionsRequired,
                                     !.buffers = Append(@, Buffer(<<>>))]
                 ELSE [merged EXCEPT
                          !.extensionsUsed = @ \cup doc.extensionsUsed,
                          !.extensionsRequired = @ \cup doc.extensionsRequired]
        offsets == MergeOffsets(start)
        currentBufferSize == Len(start.buffers[1].data)
        appended ==
            [start EXCEPT
                !.buffers[1].data = @ \o concatBytes([b \in 1 .. Len(doc.buffers) |->
                                                         doc.buffers[b].data]),
                !.bufferViews = @ \o mergeBufferViews(doc, currentBufferSize),
                !.accessors = @ \o adjustAccessors(doc.accessors, offsets),
                !.samplers = @ \o doc.samplers,
                !.images = @ \o adjustImages(doc.images, offsets),
                !.textures = @ \o adjustTextures(doc.textures, offsets),
                !.materials = @ \o adjustMaterials(doc.materials, offsets),
                !.meshes = @ \o adjustMeshes(doc.meshes, offsets),
                !.skins = @ \o adjustSkins(doc.skins, offsets),
                !.cameras = @ \o doc.cameras,
                !.nodes = @ \o adjustNodes(doc.nodes, offsets),
                !.animations = @ \o adjustAnimations(doc.animations, offsets)]
    IN mergeScenes(appended, doc, offsets, keepScenesIndependent, defaultScenesOnly)

\* Input documents for merge.  A lean document has nodes and scenes only; a
\* rich one has every kind of entity and reference, two buffers whose bytes
\* carry the tag of the document, and an image stored in a buffer view.
MergeLean(nodeCount, scenes, defaultScene) ==
    [EmptyModel EXCEPT
        !.nodes = [n \in 1 .. nodeCount |->
                      Node(IF n = 1 /\ nodeCount > 1 THEN <<1>> ELSE <<>>,
                           -1, -1, -1, FALSE)],
        !.scenes = scenes,
        !.defaultScene = defaultScene]

MergeRich(scenes, defaultScene, tag, draco) ==
    [EmptyModel EXCEPT
        !.nodes = <<Node(<<1>>, 0, 0, -1, FALSE), Node(<<>>, -1, -1, 0, FALSE)>>,
        !.scenes = scenes,
        !.defaultScene = defaultScene,
        !.cameras = <<[type |-> "perspective"]>>,
        !.meshes = <<Mesh(<<[Primitive([POSITION |-> 0], 1, 0, MODE_TRIANGLES)
                               EXCEPT !.targets = <<[POSITION |-> 2]>>,
                                      !.draco = IF draco THEN <<2>> ELSE <<>>]>>)>>,
        !.materials = <<Material(TextureInfo(0, 0), TextureInfo(0, 0), FALSE)>>,
        !.textures = <<Texture(0, 0)>>,
        !.images = <<Image(2, <<>>)>>,
        !.samplers = <<[magFilter |-> 9729]>>,
        !.accessors = <<Accessor(0, 0, UNSIGNED_BYTE, "VEC3", 3),
                        Accessor(1, 1, UNSIGNED_BYTE, "SCALAR", 3),
                        Accessor(-1, 0, UNSIGNED_BYTE, "VEC3", 3)>>,
        !.bufferViews = <<BufferView(0, 0, 9, 0), BufferView(1, 0, 4, 0),
                          BufferView(1, 4, 2, 0)>>,
        !.buffers = <<Buffer(<<tag, 1, 2, 3, 4, 5, 6, 7, 8>>),
                      Buffer(<<tag, 0, 1, 2, tag, tag>>)>>,
        !.skins = <<Skin(<<0, 1>>, 0, 2)>>,
        !.animations = <<Animation(<<Channel(0, 1, "translation")>>,
                                   <<AnimSampler(1, 2)>>)>>,
        !.extensionsUsed = IF draco THEN {DracoExtension} ELSE {}]

MergeDocs ==
    {EmptyModel,
     MergeLean(1, <<>>, -1),
     MergeLean(1, <<<<0>>>>, -1),
     MergeLean(2, <<<<0>>, <<1>>>>, 1),
     MergeLean(2, <<<<1>>, <<0, 1>>>>, -1),
     MergeRich(<<<<0>>>>, 0, 7, FALSE),
     MergeRich(<<<<0>>, <<1>>>>, 1, 9, TRUE)}

\* The merge command: its input files in order and its two scene flags.
MergeCommands ==
    [name : {"merge"},
     inputs : UNION {[1 .. n -> MergeDocs] : n \in 1 .. 3},
     keepScenesIndependent : BOOLEAN,
     defaultScenesOnly : BOOLEAN]

\* A fresh GltfMerger: mergedModel_ is empty and firstModel_ is set.
InitMerge ==
    /\ cmd \in MergeCommands
    /\ model = EmptyModel
    /\ prev = EmptyModel
    /\ lastPass = "none"
    /\ passOpts = [none |-> TRUE]
    /\ steps = 0
    /\ pc = "idle"
    /\ records = <<>>
    /\ exitCode = -1
    /\ passLog = <<>>

\* One turn of the loop of the merge command: loadAndMergeFile on the next
\* input.  A file that does not load ends the command with an error; one
\* that loads is merged into the accumulator (firstModel_ holds for the
\* first).
LoadAndMergeFile ==
    /\ pc = "idle"
    /\ steps < Len(cmd.inputs)
    /\ \E loads \in BOOLEAN :
          IF loads
          THEN /\ model' = mergeModelStreaming(model, steps = 0, cmd.inputs[steps + 1],
                                               cmd.keepScenesIndependent,
                                               cmd.defaultScenesOnly)
               /\ prev' = model
               /\ lastPass' = "merge"
               /\ passOpts' = [keepScenesIndependent |-> cmd.keepScenesIndependent,
                               defaultScenesOnly |-> cmd.defaultScenesOnly]
               /\ steps' = steps + 1
               /\ UNCHANGED cliVars
          ELSE /\ records' = Append(records, Error("merge"))
               /\ exitCode' = 1
               /\ pc' = "exited"
               /\ UNCHANGED <<passVars, cmd, passLog>>

NextMerge == LoadAndMergeFile

SpecMerge == InitMerge /\ [][NextMerge]_vars

----------------------------------------------------------------------------
(* The component type weld, join and simplify give the indices they write, *)
(* on outputs of dstVertexCount vertices numbered from 0, all of them      *)
(* referenced: the largest index written is dstVertexCount - 1.            *)

\* simplifyPrimitive chooses by the largest simplified index.
simplifyIndexType(maxIndex) ==
    IF maxIndex <= 255 THEN UNSIGNED_BYTE
    ELSE IF maxIndex <= 65535 THEN UNSIGNED_SHORT
    ELSE UNSIGNED_INT

\* Vertex counts on both sides of the two boundaries.
IndexTypeCounts ==
    {1, 2, 3, 254, 255, 256, 257, 258, 65534, 65535, 65536, 65537, 65538, 70000}

InitIndexType ==
    /\ cmd \in [name : {"indices"}, dstVertexCount : IndexTypeCounts]
    /\ model = EmptyModel
    /\ prev = EmptyModel
    /\ lastPass = "none"
    /\ passOpts = [none |-> TRUE]
    /\ steps = 0
    /\ pc = "idle"
    /\ records = <<>>
    /\ exitCode = -1
    /\ passLog = <<>>

\* A pass chose componentType and wrote the largest index with it.
IndexTypeChosen(pass, componentType) ==
    /\ \A r \in 1 .. Len(records) : records[r].pass # pass
    /\ records' = Append(records,
                         [pass |-> pass, componentType |-> componentType,
                          written |-> indexBytes(cmd.dstVertexCount - 1, componentType)])
    /\ UNCHANGED <<passVars, pc, cmd, exitCode, passLog>>

\* GltfWeld::compactPrimitive
WeldIndexType == IndexTypeChosen("weld", weldIndexType(cmd.dstVertexCount))

\* GltfJoin::joinPrimitives
JoinIndexType == IndexTypeChosen("join", joinIndexType(cmd.dstVertexCount))

\* GltfSimplify::simplifyPrimitive
SimplifyIndexType ==
    IndexTypeChosen("simplify", simplifyIndexType(cmd.dstVertexCount - 1))

NextIndexType == WeldIndexType \/ JoinIndexType \/ SimplifyIndexType

SpecIndexType == InitIndexType /\ [][NextIndexType]_vars

----------------------------------------------------------------------------
(* Simplify with the simplifier called.                                    *)

\* meshopt_simplify is a library: its result is a selection of the input's
\* triangles, here the first or the last `kept` of them.
SimplifierOutcomes == [kept : 0 .. 2, fromEnd : BOOLEAN]

simplifierResult(indices, outcome) ==
    LET n == IF 3 * outcome.kept > Len(indices) THEN Len(indices) ELSE 3 * outcome.kept
    IN IF outcome.fromEnd
       THEN SubSeq(indices, Len(indices) - n + 1, Len(indices))
       ELSE SubSeq(indices, 1, n)

\* simplifyPrimitive with the byte offset of the new view taken after the
\* index data was appended.
simplifyPrimitiveOffsetAfterInsert(m, i, p, ratioPercent, outcome) ==
    LET primitive == m.meshes[i].primitives[p]
        indexCount == At(m.accessors, primitive.indices).count
        indices == readIndexArray(m, primitive.indices, indexCount)
        simplifiedIndices == simplifierResult(indices, outcome)
        resultIndexCount == Len(simplifiedIndices)
        maxIndex == CHOOSE x \in SeqRange(simplifiedIndices) :
                        \A y \in SeqRange(simplifiedIndices) : y <= x
        minIndex == CHOOSE x \in SeqRange(simplifiedIndices) :
                        \A y \in SeqRange(simplifiedIndices) : x <= y
        newComponentType == simplifyIndexType(maxIndex)
        newIndexData == concatBytes([n \in 1 .. resultIndexCount |->
                                        indexBytes(simplifiedIndices[n], newComponentType)])
        byteOffset == Len(m.buffers[1].data) + Len(newIndexData)
        newBufferView == [BufferView(0, byteOffset, Len(newIndexData), 0)
                              EXCEPT !.target = TARGET_ELEMENT_ARRAY_BUFFER]
        newAccessor == [Accessor(Len(m.bufferViews), 0, newComponentType, "SCALAR",
                                 resultIndexCount)
                            EXCEPT !.minValues = <<minIndex>>, !.maxValues = <<maxIndex>>]
    IN IF simplifySkips(m, primitive, ratioPercent) THEN m
       ELSE IF resultIndexCount = 0 \/ resultIndexCount >= indexCount THEN m
       ELSE [m EXCEPT !.buffers[1].data = @ \o newIndexData,
                      !.bufferViews = Append(@, newBufferView),
                      !.accessors = Append(@, newAccessor),
                      !.meshes[i].primitives[p].indices = Len(m.accessors)]

\* simplifyPrimitive on primitive p of mesh i.
simplifyPrimitive(m, i, p, ratioPercent, outcome) ==
    LET primitive == m.meshes[i].primitives[p]
        indexCount == At(m.accessors, primitive.indices).count
        indices == readIndexArray(m, primitive.indices, indexCount)
        simplifiedIndices == simplifierResult(indices, outcome)
        resultIndexCount == Len(simplifiedIndices)
        maxIndex == CHOOSE x \in SeqRange(simplifiedIndices) :
                        \A y \in SeqRange(simplifiedIndices) : y <= x
        minIndex == CHOOSE x \in SeqRange(simplifiedIndices) :
                        \A y \in SeqRange(simplifiedIndices) : x <= y
        newComponentType == simplifyIndexType(maxIndex)
        newIndexData == concatBytes([n \in 1 .. resultIndexCount |->
                                        indexBytes(simplifiedIndices[n], newComponentType)])
        byteOffset == Len(m.buffers[1].data)
        newBufferView == [BufferView(0, byteOffset, Len(newIndexData), 0)
                              EXCEPT !.target = TARGET_ELEMENT_ARRAY_BUFFER]
        newAccessor == [Accessor(Len(m.bufferViews), 0, newComponentType, "SCALAR",
                                 resultIndexCount)
                            EXCEPT !.minValues = <<minIndex>>, !.maxValues = <<maxIndex>>]
    IN IF simplifySkips(m, primitive, ratioPercent) THEN m
       ELSE IF resultIndexCount = 0 \/ resultIndexCount >= indexCount THEN m
       ELSE [m EXCEPT !.buffers[1].data = @ \o newIndexData,
                      !.bufferViews = Append(@, newBufferView),
                      !.accessors = Append(@, newAccessor),
                      !.meshes[i].primitives[p].indices = Len(m.accessors)]

\* The mesh loop of GltfSimplify::process from primitive p of mesh i on: a
\* strip or a fan is relabelled as triangles before simplifyPrimitive.
RECURSIVE simplifyFrom(_, _, _, _, _)
simplifyFrom(m, i, p, ratioPercent, outcome) ==
    IF i > Len(m.meshes) THEN m
    ELSE IF p > Len(m.meshes[i].primitives)
    THEN simplifyFrom(m, i + 1, 1, ratioPercent, outcome)
    ELSE IF m.meshes[i].primitives[p].mode
            \notin {MODE_TRIANGLES, MODE_TRIANGLE_STRIP, MODE_TRIANGLE_FAN}
    THEN simplifyFrom(m, i, p + 1, ratioPercent, outcome)
    ELSE simplifyFrom(
             simplifyPrimitive([m EXCEPT !.meshes[i].primitives[p].mode = MODE_TRIANGLES],
                               i, p, ratioPercent, outcome),
             i, p + 1, ratioPercent, outcome)

\* GltfSimplify::process(model, options) when nothing throws.
SimplifyMeshes(m, ratioPercent, outcome) ==
    [ok |-> TRUE, model |-> simplifyFrom(m, 1, 1, ratioPercent, outcome)]

\* The documents on which simplify reads only memory it owns: for every
\* primitive handed to the simplifier the index stream lies in its buffer,
\* names vertices below the POSITION count, and every position lies in its
\* buffer.
SimplifyDefined(m, ratioPercent) ==
    \A i \in 1 .. Len(m.meshes) : \A p \in 1 .. Len(m.meshes[i].primitives) :
        LET primitive == [m.meshes[i].primitives[p] EXCEPT !.mode = MODE_TRIANGLES]
            indices == At(m.accessors, primitive.indices)
            position == At(m.accessors, primitive.attributes["POSITION"])
            positionView == At(m.bufferViews, position.bufferView)
        IN (/\ m.meshes[i].primitives[p].mode
                  \in {MODE_TRIANGLES, MODE_TRIANGLE_STRIP, MODE_TRIANGLE_FAN}
            /\ ~simplifySkips(m, primitive, ratioPercent)) =>
              /\ getAccessorData(primitive.indices, m).base
                 + indices.count * getComponentSize(indices.componentType)
                 <= Len(getAccessorData(primitive.indices, m).data)
              /\ \A n \in 1 .. indices.count :
                    readIndexArray(m, primitive.indices, indices.count)[n] < position.count
              /\ getAccessorData(primitive.attributes["POSITION"], m).base
                 + (position.count - 1)
                   * (IF positionView.byteStride # 0 THEN positionView.byteStride ELSE 12)
                 + 12
                 <= Len(getAccessorData(primitive.attributes["POSITION"], m).data)

----------------------------------------------------------------------------
(* Every pass on the document at hand, in any order, as a caller runs      *)
(* them: a pass that returns false is reported as an error.                *)

\* A pass ran and returned ok.
PassDone(name, options, ok, result) ==
    /\ steps < MaxSteps
    /\ model' = result
    /\ prev' = model
    /\ lastPass' = name
    /\ passOpts' = options
    /\ steps' = steps + 1
    /\ records' = IF ok THEN records ELSE Append(records, Error(name))
    /\ UNCHANGED <<pc, cmd, exitCode, passLog>>

\* A fresh GltfMerger given the document as its only input.
MergePass ==
    \E keepScenesIndependent \in BOOLEAN, defaultScenesOnly \in BOOLEAN :
        PassDone("merge",
                 [keepScenesIndependent |-> keepScenesIndependent,
                  defaultScenesOnly |-> defaultScenesOnly],
                 TRUE,
                 mergeModelStreaming(EmptyModel, TRUE, model, keepScenesIndependent,
                                     defaultScenesOnly))

DedupePass ==
    /\ DedupDefined(model)
    /\ \E options \in DedupOptionSet :
          PassDone("dedupe", options, TRUE, DedupProcess(model, options))

FlattenPass ==
    \E cleanup \in BOOLEAN : \E order \in flattenOrders(model) :
        /\ FlattenDefined(model)
        /\ PassDone("flatten", [cleanup |-> cleanup], TRUE,
                    FlattenProcess(model, cleanup, order).model)

JoinPass ==
    \E order \in JoinOrders :
        /\ JoinDefined(model, JoinOptions(FALSE))
        /\ PassDone("join", JoinOptions(FALSE),
                    JoinProcess(model, JoinOptions(FALSE), order).ok,
                    JoinProcess(model, JoinOptions(FALSE), order).model)

WeldPass ==
    \E overwrite \in BOOLEAN :
        /\ WeldDefined(model, WeldOptions(overwrite))
        /\ PassDone("weld", WeldOptions(overwrite), TRUE,
                    WeldProcess(model, WeldOptions(overwrite)))

SimplifyPass ==
    \E ratioPercent \in {50, 100}, outcome \in SimplifierOutcomes :
        /\ SimplifyDefined(model, ratioPercent)
        /\ PassDone("simplify", [ratioPercent |-> ratioPercent, outcome |-> outcome],
                    SimplifyMeshes(model, ratioPercent, outcome).ok,
                    SimplifyMeshes(model, ratioPercent, outcome).model)

CompressPass ==
    \E encodes \in BOOLEAN :
        /\ CompressDefined(model)
        /\ PassDone("compress", [encodes |-> encodes],
                    CompressProcess(model, encodes).ok,
                    CompressProcess(model, encodes).model)

PrunePass ==
    /\ PruneDefined(model)
    /\ \E options \in AllPruneOptions :
          PassDone("prune", options, TRUE, PruneProcess(model, options))

BoundsPass ==
    /\ BoundsDefined(model)
    /\ PassDone("bounds", [none |-> TRUE], TRUE, computeAllBounds(model).model)

NextPasses ==
    \/ MergePass
    \/ DedupePass
    \/ FlattenPass
    \/ JoinPass
    \/ WeldPass
    \/ SimplifyPass
    \/ CompressPass
    \/ PrunePass
    \/ BoundsPass

\* The passes from the empty document on.
InitEmpty == PassInit({EmptyModel})

SpecEmpty == InitEmpty /\ [][NextPasses]_vars

\* Documents every accessor of which lies inside its buffer: two indexed
\* primitives that join and simplify, a strip, interleaved and tight vertex
\* data with duplicates, shared accessors, and one of every kind of entity.
PipelineQuad == [count |-> 4, indexArray |-> <<0, 1, 2, 2, 1, 3>>, mode |-> MODE_TRIANGLES]

PipelineTriangle == [count |-> 4, indexArray |-> <<0, 1, 2>>, mode |-> MODE_TRIANGLES]

PipelineDocs ==
    {JoinDoc(<<PipelineQuad, PipelineQuad>>, UNSIGNED_BYTE),
     JoinDoc(<<PipelineTriangle, PipelineQuad>>, UNSIGNED_SHORT),
     [JoinDoc(<<PipelineQuad>>, UNSIGNED_SHORT)
         EXCEPT !.meshes[1].primitives[1].mode = MODE_TRIANGLE_STRIP],
     WeldDoc([v \in 1 .. WeldVertexCount |-> IF v = 1 THEN 2 ELSE 0],
             [v \in 1 .. WeldVertexCount |-> 1],
             "interleaved", TRUE, <<0, 1, 2>>, UNSIGNED_SHORT, MODE_TRIANGLES),
     WeldDoc([v \in 1 .. WeldVertexCount |-> 0],
             [v \in 1 .. WeldVertexCount |-> 1],
             "tight", TRUE, <<>>, UNSIGNED_BYTE, MODE_TRIANGLES),
     TwoMeshDoc,
     MergeRich(<<<<0>>>>, 0, 7, FALSE)}

InitPipeline == PassInit(PipelineDocs)

SpecPipeline == InitPipeline /\ [][NextPasses]_vars

----------------------------------------------------------------------------
(* Flatten, one iteration of its ancestor walk at a time: cmd holds the    *)
(* node whose parent chain step (3) of process() is walking, the current   *)
(* ancestor, and the nodes found to have a constrained ancestor.           *)

\* Three nodes with any of these child lists, cycles included.
WalkChildLists == {<<>>, <<0>>, <<1>>, <<2>>, <<1, 2>>}

WalkDoc(children, variant) ==
    [EmptyModel EXCEPT
        !.scenes = <<<<0>>>>,
        !.nodes = [i \in 1 .. Len(children) |-> Node(children[i], -1, -1, -1, FALSE)],
        !.skins = IF variant = "joint" THEN <<Skin(<<1>>, -1, -1)>> ELSE <<>>,
        !.animations = IF variant = "translation"
                       THEN <<Animation(<<Channel(0, 0, "translation")>>,
                                        <<AnimSampler(-1, -1)>>)>>
                       ELSE <<>>]

WalkDocs ==
    {EmptyModel}
    \cup {WalkDoc(children, variant) :
             children \in [1 .. 3 -> WalkChildLists],
             variant \in {"plain", "joint", "translation"}}

InitWalk ==
    /\ model \in WalkDocs
    /\ prev = model
    /\ lastPass = "none"
    /\ passOpts = [none |-> TRUE]
    /\ steps = 0
    /\ pc = "start"
    /\ cmd = [name |-> "flatten"]
    /\ records = <<>>
    /\ exitCode = -1
    /\ passLog = <<>>

\* process() up to the first walk: no nodes, return 0; else the parent map
\* and the joint and animated sets are built and node 0's walk begins.
BeginWalk ==
    /\ pc = "start"
    /\ IF Len(model.nodes) = 0
       THEN /\ pc' = "exited"
            /\ lastPass' = "flatten"
            /\ passOpts' = [flattenedCount |-> 0]
            /\ UNCHANGED cmd
       ELSE /\ pc' = "walk"
            /\ cmd' = [name |-> "flatten", node |-> 0,
                       current |-> buildParentMap(model)[0],
                       constrained |-> FALSE, flags |-> {}, iteration |-> 0]
            /\ UNCHANGED <<lastPass, passOpts>>
    /\ UNCHANGED <<model, prev, steps, records, exitCode, passLog>>

\* One iteration of while (current >= 0 && !constrained); cmd.iteration is
\* the parity of the iterations made, so that an iteration on a node that is
\* its own parent is a step like any other.
WalkStep ==
    /\ pc = "walk"
    /\ cmd.current >= 0
    /\ ~cmd.constrained
    /\ cmd' = [cmd EXCEPT
                  !.constrained = cmd.current \in flattenJoints(model)
                                  \/ cmd.current \in flattenAnimated(model),
                  !.current = buildParentMap(model)[cmd.current],
                  !.iteration = (@ + 1) % 2]
    /\ UNCHANGED <<passVars, pc, records, exitCode, passLog>>

\* The walk of one node ended: its flag is set and the next node's begins.
WalkNextNode ==
    /\ pc = "walk"
    /\ cmd.current < 0 \/ cmd.constrained
    /\ cmd.node + 1 < Len(model.nodes)
    /\ cmd' = [cmd EXCEPT
                  !.node = cmd.node + 1,
                  !.current = buildParentMap(model)[cmd.node + 1],
                  !.constrained = FALSE,
                  !.iteration = 0,
                  !.flags = IF cmd.constrained THEN @ \cup {cmd.node} ELSE @]
    /\ UNCHANGED <<passVars, pc, records, exitCode, passLog>>

\* nodesToFlatten as steps (4) collects it from the flags of the walks.
walkCandidates(m, flags) ==
    {i \in Indices(m.nodes) :
        /\ i \notin flattenAnimated(m)
        /\ i \notin flattenJoints(m)
        /\ i \notin flags
        /\ At(m.nodes, i).children = <<>>
        /\ buildParentMap(m)[i] >= 0}

walkOrders(m, flags) ==
    LET parentMap == buildParentMap(m)
        candidates == walkCandidates(m, flags)
    IN {order \in [1 .. Cardinality(candidates) -> candidates] :
           /\ \A a, b \in 1 .. Cardinality(candidates) :
                 a # b => order[a] # order[b]
           /\ \A a, b \in 1 .. Cardinality(candidates) :
                 a < b => getDepth(parentMap, order[a]) >= getDepth(parentMap, order[b])}

\* The last walk ended: steps (4) and (5) collect and flatten the candidates
\* and process() returns the count.
FinishWalk ==
    /\ pc = "walk"
    /\ cmd.current < 0 \/ cmd.constrained
    /\ cmd.node + 1 = Len(model.nodes)
    /\ \E order \in walkOrders(model, IF cmd.constrained THEN cmd.flags \cup {cmd.node}
                                      ELSE cmd.flags) :
          LET st == flattenLoop([model |-> model, parentMap |-> buildParentMap(model),
                                 flattenedCount |-> 0], order)
          IN /\ model' = st.model
             /\ passOpts' = [flattenedCount |-> st.flattenedCount]
    /\ prev' = model
    /\ lastPass' = "flatten"
    /\ pc' = "exited"
    /\ UNCHANGED <<steps, cmd, records, exitCode, passLog>>

NextWalk ==
    \/ BeginWalk
    \/ WalkStep
    \/ WalkNextNode
    \/ FinishWalk

\* process() is one call: it keeps running until it returns.
SpecWalk == InitWalk /\ [][NextWalk]_vars /\ WF_vars(NextWalk)

----------------------------------------------------------------------------
(* Properties.                                                             *)

\* C1: index validity is preserved by every pass: when every cross-table
\* index of the document a pass starts from is -1 or in range of its table
\* (image.bufferView and the Draco bufferView included), the same holds of
\* the document the pass leaves.
C1_IndexValidityPreserved == IndexValid(prev) => IndexValid(model)

\* C2: prune is idempotent: a second run of prune under the same
\* PruneOptions, on the result of the first, changes nothing.
C2_PruneIdempotent ==
    [][(lastPass = "prune" /\ lastPass' = "prune" /\ passOpts' = passOpts)
          => model' = model]_vars

\* C3: dedupe is idempotent: a second run of dedupe under the same options,
\* on the result of the first, finds nothing and leaves every table and
\* reference unchanged.
C3_DedupeIdempotent ==
    [][(lastPass = "dedupe" /\ lastPass' = "dedupe" /\ passOpts' = passOpts)
          => model' = model]_vars

\* C3, its case: dedupe has run again on a document from which the run
\* before it had removed the duplicate accessor and the duplicate mesh.
C3_SecondRunAfterMerge ==
    /\ lastPass = "dedupe"
    /\ steps = 2
    /\ passOpts = DefaultDedupOptions
    /\ prev = DedupProcess(TwoMeshDoc, DefaultDedupOptions)
    /\ Len(prev.accessors) < Len(TwoMeshDoc.accessors)
    /\ Len(prev.meshes) < Len(TwoMeshDoc.meshes)

\* The index stream of a primitive, the identity sequence when it has none.
expandedIndices(m, i, p) ==
    LET primitive == m.meshes[i].primitives[p]
        count == IF primitive.indices >= 0
                 THEN At(m.accessors, primitive.indices).count
                 ELSE At(m.accessors, primitive.attributes["POSITION"]).count
    IN readIndexArray(m, primitive.indices, count)

\* The bytes of one element of an accessor, read at the stride of its view.
elementBytes(m, accessorIdx, element) ==
    LET accessor == At(m.accessors, accessorIdx)
        view == At(m.bufferViews, accessor.bufferView)
    IN Bytes(At(m.buffers, view.buffer).data,
             view.byteOffset + accessor.byteOffset
             + element * ByteStride(accessor, view),
             getElementSize(accessor.type) * getComponentSize(accessor.componentType))

\* Expanding the new index stream over the new attributes gives the bytes
\* the old index stream selected from the old attributes.
weldRoundTrip(old, new, options) ==
    \A i \in 1 .. Len(old.meshes) : \A p \in 1 .. Len(old.meshes[i].primitives) :
        weldApplies(old.meshes[i].primitives[p], options) =>
            LET before == expandedIndices(old, i, p)
                after == expandedIndices(new, i, p)
            IN /\ Len(before) = Len(after)
               /\ \A k \in 1 .. Len(before) :
                  \A s \in DOMAIN old.meshes[i].primitives[p].attributes :
                      elementBytes(new, new.meshes[i].primitives[p].attributes[s],
                                   after[k])
                      = elementBytes(old, old.meshes[i].primitives[p].attributes[s],
                                     before[k])

\* C4: weld round-trip: for every welded primitive, indexed or not, with
\* tightly packed or strided attribute views, the new index stream decoded
\* through the new attribute accessors selects, position by position, the
\* attribute bytes the original stream selected.
C4_WeldRoundTrip == lastPass = "weld" => weldRoundTrip(prev, model, passOpts)

\* Every float32 vec3 accessor bound as POSITION has min and max of length 3
\* with min <= max componentwise.
positionBoundsOk(m) ==
    \A i \in 1 .. Len(m.meshes) : \A p \in 1 .. Len(m.meshes[i].primitives) :
        LET attributes == m.meshes[i].primitives[p].attributes
        IN (/\ "POSITION" \in DOMAIN attributes
            /\ InRange(attributes["POSITION"], m.accessors)
            /\ At(m.accessors, attributes["POSITION"]).type = "VEC3"
            /\ At(m.accessors, attributes["POSITION"]).componentType = FLOAT) =>
              LET accessor == At(m.accessors, attributes["POSITION"])
              IN /\ Len(accessor.minValues) = 3
                 /\ Len(accessor.maxValues) = 3
                 /\ \A k \in 1 .. 3 : accessor.minValues[k] <= accessor.maxValues[k]

\* C5: after the bounds pass every float32 vec3 POSITION accessor has
\* minValues and maxValues of length 3 with minValues[k] <= maxValues[k];
\* an accessor of count 0 is left unchanged.
C5_PositionBounds ==
    lastPass = "bounds" =>
        /\ positionBoundsOk(model)
        /\ \A a \in 1 .. Len(prev.accessors) :
              prev.accessors[a].count = 0 => model.accessors[a] = prev.accessors[a]

\* A record of the given type is on the progress stream.
emitted(type) == \E k \in 1 .. Len(records) : records[k].type = type

\* C6: for every subcommand, when loading, a pass or writing fails the exit
\* code is nonzero and the progress stream holds exactly one error record and
\* no success record; the exit code is 0 only if a success was reported.
C6_ExitCodeReportsFailure ==
    pc = "exited" =>
        /\ emitted("error") =>
              /\ exitCode # 0
              /\ Len(records) = 1
        /\ exitCode = 0 => emitted("success")

\* The passes of an optim run that the flags enable, in the documented order.
enabledPasses(command) ==
    SelectSeq(<<"merge", "dedupe", "flatten", "join", "weld", "simplify",
                "compress", "prune", "bounds", "write">>,
              LAMBDA pass :
                  CASE pass = "merge" -> command.inputs > 1
                    [] pass = "dedupe" -> ~command.optimSkipDedupe
                    [] pass = "flatten" -> ~command.optimSkipFlatten
                    [] pass = "join" -> ~command.optimSkipJoin
                    [] pass = "weld" -> ~command.optimSkipWeld
                    [] pass = "simplify" -> command.optimSimplify
                    [] pass = "compress" -> command.optimCompress
                    [] pass = "prune" -> ~command.optimSkipPrune
                    [] OTHER -> TRUE)

isPrefix(s, t) == Len(s) <= Len(t) /\ \A k \in 1 .. Len(s) : s[k] = t[k]

\* C7: in the optim pipeline the enabled passes run in the order merge,
\* dedupe, flatten, join, weld, simplify, compress, prune, bounds, write,
\* each on the document the pass before it left; once a pass has failed no
\* later pass runs and the writer is not invoked; a skipped pass leaves the
\* order of the others as it is; a run that reports success ran them all.
C7_OptimOrder ==
    [][cmd.name = "optim" =>
          /\ isPrefix(passLog', enabledPasses(cmd))
          /\ emitted("error") => passLog' = passLog
          /\ (passLog' # passLog /\ lastPass' # lastPass) => prev' = model
          /\ emitted("success")' => passLog' = enabledPasses(cmd)]_vars

\* C7, its case: an optim run over two inputs with no pass skipped and
\* simplify and compress requested has run all ten passes and reported
\* success, compress having encoded a primitive.
C7_FullPipelineRan ==
    /\ pc = "exited"
    /\ cmd.name = "optim"
    /\ passLog = <<"merge", "dedupe", "flatten", "join", "weld", "simplify",
                   "compress", "prune", "bounds", "write">>
    /\ records = <<Success("optim")>>
    /\ DracoExtension \in model.extensionsUsed
    /\ model # cmd.doc

\* C8: the prune subcommand honours its flags: the PruneOptions the pass
\* runs with are the flags of the command line, and the document it leaves
\* is the one prune yields under those options (with --keep-leaves no empty
\* leaf is detached or removed, with --keep-attributes no attribute is
\* dropped, with --keep-extras a leaf carrying extras stays).
C8_PruneFlagsHonoured ==
    (cmd.name = "prune" /\ lastPass = "prune") =>
        /\ passOpts = PruneOptions(cmd.keepLeaves, cmd.keepAttributes, cmd.keepExtras)
        /\ model = PruneProcess(prev, PruneOptions(cmd.keepLeaves, cmd.keepAttributes,
                                                   cmd.keepExtras))

\* The element data of an accessor lie within its buffer.
accessorResolves(m, i) ==
    LET accessor == At(m.accessors, i)
    IN /\ InRange(accessor.bufferView, m.bufferViews)
       /\ InRange(At(m.bufferViews, accessor.bufferView).buffer, m.buffers)
       /\ LET view == At(m.bufferViews, accessor.bufferView)
              elementSize == GetComponentSizeInBytes(accessor.componentType)
                             * GetNumComponentsInType(accessor.type)
              stride == IF view.byteStride > 0 THEN view.byteStride ELSE elementSize
          IN view.byteOffset + accessor.byteOffset + (stride * (accessor.count - 1))
             + elementSize <= Len(At(m.buffers, view.buffer).data)

\* The element data of an accessor: its elements, each read at the stride
\* of the view, without the bytes between them.
elementData(m, i) ==
    LET accessor == At(m.accessors, i)
        view == At(m.bufferViews, accessor.bufferView)
        elementSize == GetComponentSizeInBytes(accessor.componentType)
                       * GetNumComponentsInType(accessor.type)
        stride == IF view.byteStride > 0 THEN view.byteStride ELSE elementSize
    IN hashElements(At(m.buffers, view.buffer).data,
                    view.byteOffset + accessor.byteOffset, stride, elementSize,
                    0, accessor.count)

\* The duplicates among the accessors by key and element data, each mapped
\* to the first accessor it equals.
duplicatesByElementData(m) ==
    findDuplicates([k \in 1 .. Len(m.accessors) |->
                       <<createAccessorHash(m.accessors[k]), elementData(m, k - 1)>>])

\* C9: accessor dedupe, first occurrence wins: of the accessors that share
\* the key and have byte-identical element data only the lowest-index one
\* remains, every reference to a member points at the survivor's new index,
\* and every reference to another accessor follows its renumbering.
C9_FirstOccurrenceWins ==
    (/\ lastPass = "dedupe"
     /\ passOpts = AccessorsOnly
     /\ \A i \in Indices(prev.accessors) : accessorResolves(prev, i)) =>
        model = applyAccessorDuplicates(prev, duplicatesByElementData(prev))

\* A node is off-limits for flatten: a joint, the target of a TRS animation,
\* or below such a node.
offLimits(m, n) ==
    \/ n \in flattenJoints(m)
    \/ n \in flattenAnimated(m)
    \/ hasConstrainedAncestor(m, buildParentMap(m), n)

\* The local transform of a node is a translation and nothing else.
pureTranslation(node) ==
    IF node.matrix # <<>>
    THEN \A k \in 1 .. 12 : node.matrix[k] = identityMatrix[k]
    ELSE /\ node.rotation \in {<<>>, <<Num(0), Num(0), Num(0), Num(1)>>}
         /\ node.scale \in {<<>>, <<Num(1), Num(1), Num(1)>>}

translationOf(node) ==
    IF node.matrix # <<>>
    THEN <<node.matrix[13], node.matrix[14], node.matrix[15]>>
    ELSE IF node.translation = <<>> THEN <<Num(0), Num(0), Num(0)>>
    ELSE node.translation

RECURSIVE translationSum(_, _)
translationSum(m, chain) ==
    IF chain = <<>> THEN <<Num(0), Num(0), Num(0)>>
    ELSE LET rest == translationSum(m, Tail(chain))
             t == translationOf(At(m.nodes, Head(chain)))
         IN <<rAdd(rest[1], t[1]), rAdd(rest[2], t[2]), rAdd(rest[3], t[3])>>

\* A childless node with a parent, not off-limits, whose chain up to its
\* root carries only translations.
translationChainLeaf(m, n) ==
    /\ At(m.nodes, n).children = <<>>
    /\ buildParentMap(m)[n] >= 0
    /\ ~offLimits(m, n)
    /\ \A a \in SeqRange(ancestorsFrom(buildParentMap(m), n)) :
          pureTranslation(At(m.nodes, a))

\* What flatten owes such a node: the summed translation, detachment from
\* its parent, and one entry in every scene that holds its root.
flattenedToRoot(old, new, n) ==
    LET chain == ancestorsFrom(buildParentMap(old), n)
        root == chain[Len(chain)]
    IN /\ pureTranslation(At(new.nodes, n))
       /\ translationOf(At(new.nodes, n)) = translationSum(old, chain)
       /\ n \notin SeqRange(At(new.nodes, buildParentMap(old)[n]).children)
       /\ \A k \in 1 .. Len(old.scenes) :
             root \in SeqRange(old.scenes[k]) =>
                Cardinality({j \in 1 .. Len(new.scenes[k]) : new.scenes[k][j] = n}) = 1

\* C10: flatten of a translation chain: every childless node that is not
\* off-limits and whose ancestors up to its root carry only translations
\* ends with the sum of the translations of the chain as its local
\* transform, out of its former parent's child list and appended once to
\* every scene that holds its root; in particular scene [0], node 0
\* t=(1,0,0) with child 1, node 1 t=(0,2,0) gives node 1 = (1,2,0), scene
\* roots [0,1] and node 0 childless.
C10_TranslationChain ==
    lastPass = "flatten" =>
        \A n \in Indices(prev.nodes) :
            translationChainLeaf(prev, n) => flattenedToRoot(prev, model, n)

\* The sum of POSITION.count over the first n primitives of the group.
RECURSIVE vertexBase(_, _, _)
vertexBase(m, prims, n) ==
    IF n = 0 THEN 0
    ELSE vertexBase(m, prims, n - 1)
         + At(m.accessors, prims[n].attributes["POSITION"]).count

\* The indices of the group's sources one after the other, the j-th source
\* offset by the vertex counts of the sources before it.
RECURSIVE rebasedIndices(_, _, _)
rebasedIndices(m, prims, n) ==
    IF n = 0 THEN <<>>
    ELSE rebasedIndices(m, prims, n - 1)
         \o [k \in 1 .. At(m.accessors, prims[n].indices).count |->
                joinSrcIndices(m, prims[n])[k] + vertexBase(m, prims, n - 1)]

joinedFrom(before, group, after, q) ==
    LET prims == [k \in 1 .. Len(group) |-> before.meshes[1].primitives[group[k]]]
    IN /\ "POSITION" \in DOMAIN q.attributes
       /\ InRange(q.attributes["POSITION"], after.accessors)
       /\ At(after.accessors, q.attributes["POSITION"]).count
          = vertexBase(before, prims, Len(prims))
       /\ InRange(q.indices, after.accessors)
       /\ At(after.accessors, q.indices).count = Len(rebasedIndices(before, prims, Len(prims)))
       /\ readIndexArray(after, q.indices, At(after.accessors, q.indices).count)
          = rebasedIndices(before, prims, Len(prims))

\* C11: when join has run, every group of two or more compatible indexed
\* primitives of the mesh is replaced by exactly one primitive: the mesh
\* keeps the primitives outside the groups and gains one per group, and for
\* every group one of the new primitives has as POSITION.count the sum of
\* the sources' POSITION.count, as index count the sum of the sources' index
\* counts, and as indices those of the sources, the j-th source's offset by
\* the POSITION.count of the sources before it.
C11_JoinConcatenates ==
    lastPass = "join" =>
        LET groups == joinGroups(prev, 1, passOpts)
            indexed == {g \in groups : prev.meshes[1].primitives[g[1]].indices >= 0}
            grouped == UNION {{g[n] : n \in 1 .. Len(g)} : g \in groups}
            after == model.meshes[1].primitives
        IN /\ Len(after) = Len(prev.meshes[1].primitives) - Cardinality(grouped)
                           + Cardinality(groups)
           /\ \A g \in indexed :
                 \E p \in 1 .. Len(after) : joinedFrom(prev, g, model, after[p])

\* The number of nodes of the first k inputs.
RECURSIVE nodeTotal(_, _)
nodeTotal(inputs, k) ==
    IF k = 0 THEN 0 ELSE nodeTotal(inputs, k - 1) + Len(inputs[k].nodes)

\* The roots of the default scene of a document: scene 0 when it declares no
\* default; none when it has no scene.
defaultRoots(doc) ==
    IF doc.scenes = <<>> THEN <<>>
    ELSE IF doc.defaultScene >= 0 THEN At(doc.scenes, doc.defaultScene)
    ELSE doc.scenes[1]

\* The default-scene roots of the first k inputs, in input order, those of
\* the j-th input shifted by the number of nodes of the inputs before it.
RECURSIVE concatenatedRoots(_, _)
concatenatedRoots(inputs, k) ==
    IF k = 0 THEN <<>>
    ELSE concatenatedRoots(inputs, k - 1)
         \o [r \in 1 .. Len(defaultRoots(inputs[k])) |->
                defaultRoots(inputs[k])[r] + nodeTotal(inputs, k - 1)]

\* C12: in single-merged-scene mode with defaultScenesOnly, once the first
\* inputs of the command are merged the accumulator has exactly one scene,
\* defaultScene is 0, and the roots of that scene are the roots of the
\* default scene of each merged input (scene 0 when it has no default), in
\* input order, each shifted by the number of nodes of the inputs before it;
\* no other root appears.
C12_SingleSceneDefaultRoots ==
    (lastPass = "merge" /\ ~cmd.keepScenesIndependent /\ cmd.defaultScenesOnly) =>
        /\ Len(model.scenes) = 1
        /\ model.defaultScene = 0
        /\ model.scenes[1] = concatenatedRoots(cmd.inputs, steps)

\* Three inputs are merged in that mode; the second has a default scene that
\* is not its scene 0, and the third is rooted below a non-zero node offset.
C12_ThreeInputsMerged ==
    /\ lastPass = "merge"
    /\ ~cmd.keepScenesIndependent
    /\ cmd.defaultScenesOnly
    /\ steps = 3
    /\ Len(cmd.inputs[1].nodes) > 0
    /\ cmd.inputs[2].defaultScene = 1
    /\ cmd.inputs[2].scenes[1] # cmd.inputs[2].scenes[2]
    /\ defaultRoots(cmd.inputs[3]) # <<>>

\* The value a little-endian index of the given bytes stands for.
RECURSIVE indexValue(_)
indexValue(bytes) ==
    IF bytes = <<>> THEN 0 ELSE Head(bytes) + 256 * indexValue(Tail(bytes))

\* C13: the component type weld, join and simplify choose depends only on
\* the largest index written: unsigned byte up to 255, unsigned short from
\* 256 to 65535, unsigned int above (so 256 vertices get unsigned byte and
\* 65536 vertices unsigned short), and the chosen width holds the largest
\* index without truncation.
C13_IndexTypeByMaxIndex ==
    \A r \in 1 .. Len(records) :
        LET maxIndex == cmd.dstVertexCount - 1
        IN /\ records[r].componentType =
                 (IF maxIndex <= 255 THEN UNSIGNED_BYTE
                  ELSE IF maxIndex <= 65535 THEN UNSIGNED_SHORT
                  ELSE UNSIGNED_INT)
           /\ indexValue(records[r].written) = maxIndex

\* The accessors the samplers of the animations read.
animationAccessors(m) ==
    UNION {UNION {{m.animations[i].samplers[k].input, m.animations[i].samplers[k].output} :
                     k \in 1 .. Len(m.animations[i].samplers)} :
              i \in 1 .. Len(m.animations)}

\* Accessor a exists and its buffer view lies in the only buffer.
referencesBuffer(m, a) ==
    /\ InRange(a, m.accessors)
    /\ InRange(At(m.accessors, a).bufferView, m.bufferViews)
    /\ At(m.bufferViews, At(m.accessors, a).bufferView).buffer = 0

\* Prune ran on a document without nodes and with exactly one buffer.
prunedOneBuffer ==
    lastPass = "prune" /\ prev.nodes = <<>> /\ Len(prev.buffers) = 1

\* C14 as stated: on a document with zero nodes and exactly one buffer,
\* prune keeps the buffer if and only if at least one accessor of the
\* document references it through its buffer view; otherwise the buffer
\* table is empty afterwards.
C14_BufferKeptIffAnyAccessor ==
    prunedOneBuffer =>
        IF \E a \in 0 .. (Len(prev.accessors) - 1) : referencesBuffer(prev, a)
        THEN model.buffers = prev.buffers
        ELSE model.buffers = <<>>

\* C14 amended: on a document with zero nodes and exactly one buffer, prune
\* keeps the buffer if and only if an accessor read by an animation sampler
\* references it through its buffer view (without nodes no other accessor
\* is marked); otherwise the buffer table is empty afterwards.
C14_BufferKeptIffUsedAccessor ==
    prunedOneBuffer =>
        IF \E a \in animationAccessors(prev) : referencesBuffer(prev, a)
        THEN model.buffers = prev.buffers
        ELSE model.buffers = <<>>

\* Prune kept the buffer of a zero-node document for an animated accessor.
C14_BufferKept ==
    /\ prunedOneBuffer
    /\ \E a \in animationAccessors(prev) : referencesBuffer(prev, a)
    /\ Len(model.buffers) = 1

\* Prune removed the buffer of a zero-node document although an accessor,
\* read only by an unreachable mesh, references it.
C14_BufferRemoved ==
    /\ prunedOneBuffer
    /\ \E a \in 0 .. (Len(prev.accessors) - 1) : referencesBuffer(prev, a)
    /\ prev.meshes # <<>>
    /\ model.buffers = <<>>

\* C15: a pass that runs on the empty document (all tables empty, no
\* extension names) reports no failure and leaves the document empty.
C15_EmptyDocumentUntouched ==
    (lastPass # "none" /\ prev = EmptyModel) =>
        /\ model = EmptyModel
        /\ \A r \in 1 .. Len(records) : records[r] # Error(lastPass)

\* The stride an accessor is read with.
accessorStride(m, accessor) ==
    IF At(m.bufferViews, accessor.bufferView).byteStride # 0
    THEN At(m.bufferViews, accessor.bufferView).byteStride
    ELSE getElementSize(accessor.type) * getComponentSize(accessor.componentType)

accessorInside(m, accessor) ==
    accessor.bufferView # -1 =>
        /\ InRange(accessor.bufferView, m.bufferViews)
        /\ InRange(At(m.bufferViews, accessor.bufferView).buffer, m.buffers)
        /\ At(m.bufferViews, accessor.bufferView).byteOffset + accessor.byteOffset
           + accessorStride(m, accessor) * (accessor.count - 1)
           + getElementSize(accessor.type) * getComponentSize(accessor.componentType)
           <= Len(At(m.buffers, At(m.bufferViews, accessor.bufferView).buffer).data)

AccessorsInside(m) ==
    \A a \in 1 .. Len(m.accessors) : accessorInside(m, m.accessors[a])

\* C16: from a document whose accessors all lie inside their buffers, every
\* accessor of the document still does after each of merge, dedupe, join,
\* weld, simplify, compress and prune, whatever ran before.
C16_AccessorsStayInside ==
    (/\ lastPass \in {"merge", "dedupe", "join", "weld", "simplify", "compress", "prune"}
     /\ AccessorsInside(prev)) => AccessorsInside(model)

\* Three passes ran and the last one created an accessor with a buffer view.
C16_AccessorCreated ==
    /\ steps = MaxSteps
    /\ lastPass \in {"join", "weld", "simplify"}
    /\ AccessorsInside(prev)
    /\ Len(model.accessors) > Len(prev.accessors)
    /\ model.accessors[Len(model.accessors)].bufferView # -1

\* The place of node n in the child list of its parent (0 without a parent).
childPosition(m, n) ==
    LET parentIdx == buildParentMap(m)[n]
    IN IF parentIdx < 0 THEN 0
       ELSE CHOOSE k \in 1 .. Len(At(m.nodes, parentIdx).children) :
                At(m.nodes, parentIdx).children[k] = n

localTransform(node) ==
    <<node.matrix, node.translation, node.rotation, node.scale>>

sceneRoots(m, n) == {k \in 1 .. Len(m.scenes) : n \in SeqRange(m.scenes[k])}

\* Flatten left node n with its parent, its local transform and its scenes.
keptInPlace(old, new, n) ==
    /\ buildParentMap(new)[n] = buildParentMap(old)[n]
    /\ localTransform(At(new.nodes, n)) = localTransform(At(old.nodes, n))
    /\ sceneRoots(new, n) \subseteq sceneRoots(old, n)

\* C17 as stated: flatten leaves every off-limits node (a skin joint, the
\* target of a translation, rotation or scale channel, or a descendant of
\* one) with the same parent, the same place in that parent's child list,
\* the same local transform, and adds it to no scene's roots.
C17_OffLimitsSamePlace ==
    lastPass = "flatten" =>
        \A n \in Indices(prev.nodes) :
            offLimits(prev, n) =>
                /\ keptInPlace(prev, model, n)
                /\ childPosition(model, n) = childPosition(prev, n)

\* C17, amended: the off-limits node keeps its parent, its local transform
\* and its order among the children that remain in the parent's list, and
\* is added to no scene's roots; its index in the list drops by one for
\* every flattened sibling listed before it.
C17_OffLimitsKept ==
    lastPass = "flatten" =>
        \A n \in Indices(prev.nodes) :
            offLimits(prev, n) =>
                /\ keptInPlace(prev, model, n)
                /\ \A s \in Indices(prev.nodes) :
                      (/\ buildParentMap(prev)[n] >= 0
                       /\ buildParentMap(model)[s] = buildParentMap(prev)[n]
                       /\ buildParentMap(prev)[s] = buildParentMap(prev)[n]) =>
                          ((childPosition(model, n) < childPosition(model, s))
                           <=> (childPosition(prev, n) < childPosition(prev, s)))

\* Flatten detached a node whose sibling is off-limits.
C17_SiblingOfOffLimitsFlattened ==
    /\ lastPass = "flatten"
    /\ \E n, s \in Indices(prev.nodes) :
          /\ offLimits(prev, n)
          /\ buildParentMap(prev)[n] >= 0
          /\ buildParentMap(prev)[s] = buildParentMap(prev)[n]
          /\ buildParentMap(model)[s] = -1

\* The candidates as the specification collects them: the nodes that have a
\* parent and are not off-limits.
parentedCandidates(m) ==
    {n \in Indices(m.nodes) : buildParentMap(m)[n] >= 0 /\ ~offLimits(m, n)}

\* C18: after flatten every node that had a parent and was not off-limits is
\* in no node's child list, intermediate nodes with children included, and
\* the returned count is the number of these nodes.
C18_EveryCandidateFlattened ==
    lastPass = "flatten" =>
        /\ \A n \in parentedCandidates(prev) : buildParentMap(model)[n] = -1
        /\ passOpts.flattenedCount = Cardinality(parentedCandidates(prev))

\* C19: flatten returns on every document, also on one whose node.children
\* relation has a cycle: the ancestor walks come to an end.
C19_FlattenTerminates == <>(pc = "exited")

\* Where a reference of an input lands in the accumulator: an absent
\* reference stays absent, any other moves by the size the target table had
\* before the merge.
embedRef(ref, offset) == IF ref = -1 THEN -1 ELSE ref + offset

embedRefs(refs, offset) == [k \in DOMAIN refs |-> embedRef(refs[k], offset)]

viewBytes(m, view) ==
    SubSeq(At(m.buffers, view.buffer).data, view.byteOffset + 1,
           view.byteOffset + view.byteLength)

\* The tables of acc continue those of old with the entities of doc, every
\* reference of which names the copy of what it named in doc.
embeddedIn(old, doc, acc) ==
    /\ Len(acc.buffers) = 1
    /\ \A i \in 1 .. Len(old.nodes) : acc.nodes[i] = old.nodes[i]
    /\ Len(acc.nodes) = Len(old.nodes) + Len(doc.nodes)
    /\ \A i \in 1 .. Len(doc.nodes) :
          LET a == doc.nodes[i]
              b == acc.nodes[Len(old.nodes) + i]
          IN /\ b.children = embedRefs(a.children, Len(old.nodes))
             /\ b.mesh = embedRef(a.mesh, Len(old.meshes))
             /\ b.skin = embedRef(a.skin, Len(old.skins))
             /\ b.camera = embedRef(a.camera, Len(old.cameras))
    /\ Len(acc.meshes) = Len(old.meshes) + Len(doc.meshes)
    /\ \A i \in 1 .. Len(doc.meshes) :
          LET a == doc.meshes[i]
              b == acc.meshes[Len(old.meshes) + i]
          IN /\ Len(b.primitives) = Len(a.primitives)
             /\ \A p \in 1 .. Len(a.primitives) :
                   /\ b.primitives[p].material
                      = embedRef(a.primitives[p].material, Len(old.materials))
                   /\ b.primitives[p].indices
                      = embedRef(a.primitives[p].indices, Len(old.accessors))
                   /\ b.primitives[p].attributes
                      = embedRefs(a.primitives[p].attributes, Len(old.accessors))
                   /\ b.primitives[p].targets
                      = [t \in DOMAIN a.primitives[p].targets |->
                            embedRefs(a.primitives[p].targets[t], Len(old.accessors))]
    /\ Len(acc.materials) = Len(old.materials) + Len(doc.materials)
    /\ \A i \in 1 .. Len(doc.materials) :
          LET a == doc.materials[i]
              b == acc.materials[Len(old.materials) + i]
          IN /\ b.baseColorTexture.index
                = embedRef(a.baseColorTexture.index, Len(old.textures))
             /\ b.metallicRoughnessTexture.index
                = embedRef(a.metallicRoughnessTexture.index, Len(old.textures))
             /\ b.normalTexture.index = embedRef(a.normalTexture.index, Len(old.textures))
             /\ b.occlusionTexture.index
                = embedRef(a.occlusionTexture.index, Len(old.textures))
             /\ b.emissiveTexture.index
                = embedRef(a.emissiveTexture.index, Len(old.textures))
    /\ Len(acc.textures) = Len(old.textures) + Len(doc.textures)
    /\ \A i \in 1 .. Len(doc.textures) :
          LET a == doc.textures[i]
              b == acc.textures[Len(old.textures) + i]
          IN /\ b.source = embedRef(a.source, Len(old.images))
             /\ b.sampler = embedRef(a.sampler, Len(old.samplers))
    /\ Len(acc.images) = Len(old.images) + Len(doc.images)
    /\ \A i \in 1 .. Len(doc.images) :
          acc.images[Len(old.images) + i].bufferView
          = embedRef(doc.images[i].bufferView, Len(old.bufferViews))
    /\ Len(acc.samplers) = Len(old.samplers) + Len(doc.samplers)
    /\ Len(acc.cameras) = Len(old.cameras) + Len(doc.cameras)
    /\ Len(acc.accessors) = Len(old.accessors) + Len(doc.accessors)
    /\ \A i \in 1 .. Len(doc.accessors) :
          acc.accessors[Len(old.accessors) + i].bufferView
          = embedRef(doc.accessors[i].bufferView, Len(old.bufferViews))
    /\ Len(acc.skins) = Len(old.skins) + Len(doc.skins)
    /\ \A i \in 1 .. Len(doc.skins) :
          LET a == doc.skins[i]
              b == acc.skins[Len(old.skins) + i]
          IN /\ b.joints = embedRefs(a.joints, Len(old.nodes))
             /\ b.skeleton = embedRef(a.skeleton, Len(old.nodes))
             /\ b.inverseBindMatrices
                = embedRef(a.inverseBindMatrices, Len(old.accessors))
    /\ Len(acc.animations) = Len(old.animations) + Len(doc.animations)
    /\ \A i \in 1 .. Len(doc.animations) :
          LET a == doc.animations[i]
              b == acc.animations[Len(old.animations) + i]
          IN /\ Len(b.samplers) = Len(a.samplers)
             /\ Len(b.channels) = Len(a.channels)
             /\ \A s \in 1 .. Len(a.samplers) :
                   /\ b.samplers[s].input = embedRef(a.samplers[s].input, Len(old.accessors))
                   /\ b.samplers[s].output
                      = embedRef(a.samplers[s].output, Len(old.accessors))
             /\ \A c \in 1 .. Len(a.channels) :
                   /\ b.channels[c].sampler = a.channels[c].sampler
                   /\ b.channels[c].target_node
                      = embedRef(a.channels[c].target_node, Len(old.nodes))
    /\ Len(acc.bufferViews) = Len(old.bufferViews) + Len(doc.bufferViews)
    /\ \A i \in 1 .. Len(old.bufferViews) :
          /\ acc.bufferViews[i] = old.bufferViews[i]
          /\ viewBytes(acc, acc.bufferViews[i]) = viewBytes(old, old.bufferViews[i])
    /\ \A i \in 1 .. Len(doc.bufferViews) :
          LET b == acc.bufferViews[Len(old.bufferViews) + i]
          IN /\ b.buffer = 0
             /\ b.byteLength = doc.bufferViews[i].byteLength
             /\ viewBytes(acc, b) = viewBytes(doc, doc.bufferViews[i])

\* C20: merging an input into the accumulator embeds it: one buffer, each
\* entity at its table's former size plus its index, each reference naming
\* the merged copy of what it named, each buffer view in buffer 0 over the
\* bytes it addressed in its source buffer; what was merged before stays.
C20_MergeEmbedsInput ==
    lastPass = "merge" => embeddedIn(prev, cmd.inputs[steps], model)

\* An input with every kind of entity was merged after one that has them too.
C20_RichMergedOntoRich ==
    /\ lastPass = "merge"
    /\ steps >= 2
    /\ prev.textures # <<>>
    /\ prev.bufferViews # <<>>
    /\ cmd.inputs[steps].textures # <<>>
    /\ cmd.inputs[steps].animations # <<>>
    /\ cmd.inputs[steps].buffers # cmd.inputs[1].buffers

\* C21: after an input is merged, the buffer view named inside the Draco
\* extension of each of its primitives is the one it named in the input,
\* moved by the number of buffer views the accumulator had before.
C21_DracoViewRenumbered ==
    lastPass = "merge" =>
        LET doc == cmd.inputs[steps]
        IN \A i \in 1 .. Len(doc.meshes) :
              \A p \in 1 .. Len(doc.meshes[i].primitives) :
                 LET a == doc.meshes[i].primitives[p]
                     b == model.meshes[Len(prev.meshes) + i].primitives[p]
                 IN a.draco # <<>>
                    => b.draco = <<a.draco[1] + Len(prev.bufferViews)>>

\* The element bytes that can be read for an accessor through its buffer
\* view, element by element at the stride of the view; none when the
\* accessor has no buffer view or the view has no buffer.
readableElements(m, i) ==
    LET accessor == At(m.accessors, i)
    IN IF ~InRange(accessor.bufferView, m.bufferViews) THEN <<>>
       ELSE IF ~InRange(At(m.bufferViews, accessor.bufferView).buffer, m.buffers)
       THEN <<>>
       ELSE elementData(m, i)

\* A reference that named accessor a before names, as accessor b after, an
\* accessor with the same key and the same element bytes.
sameAccessorData(old, a, new, b) ==
    InRange(a, old.accessors) =>
        /\ InRange(b, new.accessors)
        /\ createAccessorHash(At(new.accessors, b))
           = createAccessorHash(At(old.accessors, a))
        /\ readableElements(new, b) = readableElements(old, a)

\* C22: accessor dedupe is sound: an accessor is merged only into one with
\* the same key and the same element bytes, so every reference to an
\* accessor (attribute, indices, morph target, animation sampler, inverse
\* bind matrices) still names the key and the element bytes it named before.
C22_AccessorDedupeSound ==
    (lastPass = "dedupe" /\ passOpts = AccessorsOnly) =>
        /\ \A i \in 1 .. Len(prev.meshes) :
              \A p \in 1 .. Len(prev.meshes[i].primitives) :
                 LET a == prev.meshes[i].primitives[p]
                     b == model.meshes[i].primitives[p]
                 IN /\ sameAccessorData(prev, a.indices, model, b.indices)
                    /\ \A s \in DOMAIN a.attributes :
                          sameAccessorData(prev, a.attributes[s],
                                           model, b.attributes[s])
                    /\ \A t \in 1 .. Len(a.targets) :
                          \A s \in DOMAIN a.targets[t] :
                             sameAccessorData(prev, a.targets[t][s],
                                              model, b.targets[t][s])
        /\ \A i \in 1 .. Len(prev.skins) :
              sameAccessorData(prev, prev.skins[i].inverseBindMatrices,
                               model, model.skins[i].inverseBindMatrices)
        /\ \A i \in 1 .. Len(prev.animations) :
              \A k \in 1 .. Len(prev.animations[i].samplers) :
                 /\ sameAccessorData(prev, prev.animations[i].samplers[k].input,
                                     model, model.animations[i].samplers[k].input)
                 /\ sameAccessorData(prev, prev.animations[i].samplers[k].output,
                                     model, model.animations[i].samplers[k].output)

\* The keyed fields of a material other than its texture indices.
materialKeyedFields(material) ==
    <<material.baseColorFactor, material.metallicFactor, material.roughnessFactor,
      material.emissiveFactor,
      material.baseColorTexture.texCoord, material.metallicRoughnessTexture.texCoord,
      material.normalTexture.texCoord, material.occlusionTexture.texCoord,
      material.emissiveTexture.texCoord,
      material.alphaMode, material.alphaCutoff, material.doubleSided,
      material.unlit, material.extras>>

materialTextureIndices(material) ==
    <<material.baseColorTexture.index, material.metallicRoughnessTexture.index,
      material.normalTexture.index, material.occlusionTexture.index,
      material.emissiveTexture.index>>

\* Material b of new stands for material a of old without a change in a
\* keyed field; texture indices are compared when textures were not
\* renumbered by the run, names when keepUniqueNames is set.
sameMaterial(old, a, new, b, options) ==
    IF ~InRange(a, old.materials) THEN b = a
    ELSE /\ InRange(b, new.materials)
         /\ materialKeyedFields(At(new.materials, b))
            = materialKeyedFields(At(old.materials, a))
         /\ ~options.dedupTextures
            => materialTextureIndices(At(new.materials, b))
               = materialTextureIndices(At(old.materials, a))
         /\ options.keepUniqueNames
            => At(new.materials, b).name = At(old.materials, a).name

\* C23: material dedupe merges only materials that agree on every keyed
\* field: the material each primitive of each node's mesh names after the
\* run has the factors, texCoord channels, alpha mode, alpha cutoff,
\* double-sided flag, extensions and extras flag (texture indices, name) of
\* the material it named before.
C23_MaterialDedupeKeyed ==
    (lastPass = "dedupe" /\ passOpts.dedupMaterials) =>
        \A n \in 1 .. Len(prev.nodes) :
           InRange(prev.nodes[n].mesh, prev.meshes) =>
              LET a == At(prev.meshes, prev.nodes[n].mesh)
                  b == At(model.meshes, model.nodes[n].mesh)
              IN \A p \in 1 .. Len(a.primitives) :
                    sameMaterial(prev, a.primitives[p].material,
                                 model, b.primitives[p].material, passOpts)

\* The nodes that survive prune, by their index before the run: those the
\* last marking holds, made on the document the pre-passes left.
survivingNodes(old, options) ==
    {n \in markAll(prunePrePasses(old, options)).nodes : InRange(n, old.nodes)}

\* The node of the pruned document that node n of the old one became.
survivor(old, new, n, options) ==
    At(new.nodes, buildIndexMap(Len(old.nodes), survivingNodes(old, options))[n])

\* C24: every node that survives prune, however it was marked, keeps its
\* mesh, its skin and its camera: a reference that was valid before the run
\* is not reset to -1.
C24_SurvivorsKeepAttachments ==
    lastPass = "prune" =>
        \A n \in survivingNodes(prev, passOpts) :
           LET a == At(prev.nodes, n)
               b == survivor(prev, model, n, passOpts)
           IN /\ InRange(a.mesh, prev.meshes) => b.mesh # -1
              /\ InRange(a.skin, prev.skins) => b.skin # -1
              /\ InRange(a.camera, prev.cameras) => b.camera # -1

\* The images that survive prune, by their index before the run.
survivingImages(old, options) ==
    {i \in markAll(prunePrePasses(old, options)).images : InRange(i, old.images)}

\* View b of new is view a of old: same window, same stride, over a buffer
\* with the same bytes.
sameView(old, a, new, b) ==
    /\ InRange(b, new.bufferViews)
    /\ At(new.bufferViews, b).byteOffset = At(old.bufferViews, a).byteOffset
    /\ At(new.bufferViews, b).byteLength = At(old.bufferViews, a).byteLength
    /\ At(new.bufferViews, b).byteStride = At(old.bufferViews, a).byteStride
    /\ InRange(At(old.bufferViews, a).buffer, old.buffers)
       => /\ InRange(At(new.bufferViews, b).buffer, new.buffers)
          /\ At(new.buffers, At(new.bufferViews, b).buffer)
             = At(old.buffers, At(old.bufferViews, a).buffer)

\* C25: an image that survives prune and is stored in a buffer view still
\* names that view afterwards: the view and its buffer survive and the
\* image's bufferView is the view's new index.
C25_ImageViewsFollow ==
    lastPass = "prune" =>
        LET kept == survivingImages(prev, passOpts)
            imageMap == buildIndexMap(Len(prev.images), kept)
        IN \A i \in kept :
              InRange(At(prev.images, i).bufferView, prev.bufferViews) =>
                 sameView(prev, At(prev.images, i).bufferView,
                          model, At(model.images, imageMap[i]).bufferView)

\* A primitive of the document carries the Draco extension object with a
\* buffer view of the document.
dracoCarried(m) ==
    \E i \in 1 .. Len(m.meshes) : \E p \in 1 .. Len(m.meshes[i].primitives) :
        /\ m.meshes[i].primitives[p].draco # <<>>
        /\ InRange(m.meshes[i].primitives[p].draco[1], m.bufferViews)

\* C26: when compress returns, KHR_draco_mesh_compression is required only
\* if a primitive carries the extension with a valid buffer view, and a run
\* that compressed no primitive leaves extensionsUsed and
\* extensionsRequired as they were.
C26_DracoRequiredOnlyIfCarried ==
    lastPass = "compress" =>
        /\ DracoExtension \in model.extensionsRequired => dracoCarried(model)
        /\ model.meshes = prev.meshes
           => /\ model.extensionsUsed = prev.extensionsUsed
              /\ model.extensionsRequired = prev.extensionsRequired

\* Every buffer of old is at the same index in new, with the same bytes.
buffersKept(old, new) ==
    /\ Len(new.buffers) >= Len(old.buffers)
    /\ \A b \in 1 .. Len(old.buffers) : new.buffers[b] = old.buffers[b]

\* C27: weld, join, simplify and compress leave every buffer that existed
\* before the pass at its index with its length and its bytes; what they
\* write goes to buffers appended by the pass.
C27_ExistingBuffersUntouched ==
    lastPass \in {"weld", "join", "simplify", "compress"} => buffersKept(prev, model)

\* Simplify skipped primitive p of mesh i: it gave the primitive no new
\* index accessor.
simplifySkipped(old, new, i, p) ==
    new.meshes[i].primitives[p].indices = old.meshes[i].primitives[p].indices

\* C28: a primitive simplify skips, a strip or a fan included, leaves the
\* pass with the mode, the indices and the attributes it had, and a run
\* that skips every primitive leaves the accessors, the buffer views and
\* the buffers as they were.
C28_SkippedPrimitiveUnchanged ==
    lastPass = "simplify" =>
        /\ \A i \in 1 .. Len(prev.meshes) :
              \A p \in 1 .. Len(prev.meshes[i].primitives) :
                 simplifySkipped(prev, model, i, p)
                 => model.meshes[i].primitives[p] = prev.meshes[i].primitives[p]
        /\ (\A i \in 1 .. Len(prev.meshes) :
               \A p \in 1 .. Len(prev.meshes[i].primitives) :
                  simplifySkipped(prev, model, i, p))
           => /\ model.accessors = prev.accessors
              /\ model.bufferViews = prev.bufferViews
              /\ model.buffers = prev.buffers

\* Node n of old still hangs where it hung: each surviving parent has it as
\* a child, each scene that had it as a root still has it.
attachedAsBefore(old, new, n, options) ==
    LET kept == survivingNodes(old, options)
        nodeMap == buildIndexMap(Len(old.nodes), kept)
    IN /\ \A q \in kept :
             n \in SeqRange(At(old.nodes, q).children)
             => nodeMap[n] \in SeqRange(At(new.nodes, nodeMap[q]).children)
       /\ \A s \in 1 .. Len(old.scenes) :
             n \in SeqRange(old.scenes[s]) => nodeMap[n] \in SeqRange(new.scenes[s])

\* C29: prune without keepLeaves keeps the hierarchy of what survives: a
\* surviving node, a childless joint, skeleton root or animation target
\* included, is still a child of the surviving parent it had and a root of
\* the scenes it was a root of.
C29_LeafPruneKeepsHierarchy ==
    (lastPass = "prune" /\ ~passOpts.keepLeaves) =>
        \A n \in survivingNodes(prev, passOpts) :
           attachedAsBefore(prev, model, n, passOpts)

\* C30: weld keeps morph targets in step with the vertex stream: on every
\* welded primitive each morph-target accessor has the count of the
\* POSITION accessor, and the new index stream selects from it, position by
\* position, the target element the old index stream selected.
C30_MorphTargetsFollowWeld ==
    lastPass = "weld" =>
        \A i \in 1 .. Len(prev.meshes) : \A p \in 1 .. Len(prev.meshes[i].primitives) :
           LET a == prev.meshes[i].primitives[p]
               b == model.meshes[i].primitives[p]
               before == expandedIndices(prev, i, p)
               after == expandedIndices(model, i, p)
           IN weldApplies(a, passOpts) =>
                 \A t \in 1 .. Len(a.targets) : \A s \in DOMAIN a.targets[t] :
                    /\ At(model.accessors, b.targets[t][s]).count
                       = At(model.accessors, b.attributes["POSITION"]).count
                    /\ \A k \in 1 .. Len(before) :
                          elementBytes(model, b.targets[t][s], after[k])
                          = elementBytes(prev, a.targets[t][s], before[k])

====
